---- MODULE Spec2Model ----
(***************************************************************************)
(* A model of the BGP-Intel command-line scripts: the address validation   *)
(* of core/lookup.py, the upstream extraction and risk classification of   *)
(* the core scripts, and the request sequences of asn_path_finder,         *)
(* sovereignty_audit and bgp_hijack_check.                                 *)
(*                                                                         *)
(* Text is modelled as a sequence of one-character strings, so that        *)
(* splitting, case conversion and substring search are computed and not    *)
(* assumed.                                                                *)
(***************************************************************************)
EXTENDS Integers, Sequences, FiniteSets, TLC

VARIABLES
    script,     \* the program (or function) this run executes
    pc,         \* position of the run in that program
    value,      \* lookup: the argument of is_valid_ip
    result,     \* lookup: what is_valid_ip returned, or "raised"
    neighbours, \* the "neighbours" field of an asn-neighbours response
    upstreams,  \* the top-3 upstream list extracted from it
    payload,    \* ip_lookup: the fields of the responses received so far
    report,     \* ip_lookup: the result object of analyse_ip
    log,        \* the HTTP requests issued and the sleeps taken, in order
    rq,         \* the HTTP call in progress
    base,       \* prefix and origin ASN found for the target
    path_asns,  \* the AS path found for the prefix
    seen,       \* the path ASNs already looked up
    targets,    \* bgp_hijack_check: the (prefix, expected ASN) pairs
    results,    \* bgp_hijack_check: the rows produced so far
    asn_prefix_cache,   \* bgp_hijack_check: ASN -> (prefixes, source)
    fetch,      \* bgp_hijack_check: the fetch_prefixes_for_asn call in progress
    exit_code   \* what main returned

lookupVars == <<value, result>>
upVars == <<neighbours, upstreams>>
ipVars == <<payload, report>>
wireVars == <<log, rq>>
pathVars == <<base, path_asns, seen>>
hijackVars == <<targets, results, asn_prefix_cache, fetch>>

vars == <<script, pc, lookupVars, upVars, ipVars, wireVars, pathVars, hijackVars,
          exit_code>>

(***************************************************************************)
(* Text helpers                                                            *)
(***************************************************************************)

\* Sequences over S of length 0..n.
SeqUpTo(S, n) == UNION {[1..k -> S] : k \in 0..n}

RECURSIVE Concat(_)
\* "".join(parts)
Concat(parts) ==
    IF parts = <<>> THEN <<>> ELSE Head(parts) \o Concat(Tail(parts))

RECURSIVE Join(_, _)
\* sep.join(parts)
Join(parts, sep) ==
    IF parts = <<>> THEN <<>>
    ELSE IF Len(parts) = 1 THEN parts[1]
    ELSE parts[1] \o <<sep>> \o Join(Tail(parts), sep)

RECURSIVE Split(_, _)
\* str.split(sep): always at least one part; "" splits into <<"">>.
Split(s, sep) ==
    IF \A i \in 1..Len(s) : s[i] /= sep THEN <<s>>
    ELSE LET k == CHOOSE i \in 1..Len(s) :
                      s[i] = sep /\ \A j \in 1..(i - 1) : s[j] /= sep
         IN  <<SubSeq(s, 1, k - 1)>> \o Split(SubSeq(s, k + 1, Len(s)), sep)

Contains(s, c) == \E i \in 1..Len(s) : s[i] = c

DecDigits == {"0", "1", "2", "3", "4", "5", "6", "7", "8", "9"}
HexDigits == DecDigits \cup {"a", "b", "c", "d", "e", "f", "A", "B", "C", "D", "E", "F"}

DigitVal(c) ==
    CASE c = "0" -> 0 [] c = "1" -> 1 [] c = "2" -> 2 [] c = "3" -> 3
      [] c = "4" -> 4 [] c = "5" -> 5 [] c = "6" -> 6 [] c = "7" -> 7
      [] c = "8" -> 8 [] c = "9" -> 9

RECURSIVE DecValue(_)
\* int(s, 10) of a string of decimal digits
DecValue(s) ==
    IF s = <<>> THEN 0
    ELSE 10 * DecValue(SubSeq(s, 1, Len(s) - 1)) + DigitVal(s[Len(s)])

DigitChar(d) == CHOOSE c \in DecDigits : DigitVal(c) = d

RECURSIVE Numeral(_)
\* str(n) of a natural number: its decimal numeral
Numeral(n) ==
    IF n < 10 THEN <<DigitChar(n)>>
    ELSE Numeral(n \div 10) \o <<DigitChar(n % 10)>>

(***************************************************************************)
(* ipaddress.ip_address as core/lookup.py calls it                         *)
(***************************************************************************)

\* _parse_octet without its upper limit, as a digits-only pattern would accept
ParseOctetNoLimit(o) ==
    /\ o /= <<>>
    /\ \A i \in 1..Len(o) : o[i] \in DecDigits
    /\ Len(o) <= 3
    /\ ~(o /= <<"0">> /\ o[1] = "0")

\* IPv4Address._parse_octet: TRUE when it returns, FALSE when it raises
\* ValueError.
ParseOctetOk(o) ==
    /\ o /= <<>>
    /\ \A i \in 1..Len(o) : o[i] \in DecDigits
    /\ Len(o) <= 3
    /\ ~(o /= <<"0">> /\ o[1] = "0")
    /\ DecValue(o) <= 255

\* IPv4Address(addr): TRUE when it constructs, FALSE when it raises
\* AddressValueError.
IPv4AddressOk(s) ==
    /\ ~Contains(s, "/")
    /\ s /= <<>>
    /\ LET octets == Split(s, ".")
       IN  /\ Len(octets) = 4
           /\ \A i \in 1..4 : ParseOctetOk(octets[i])

\* IPv6Address._parse_hextet
ParseHextetOk(h) ==
    /\ \A i \in 1..Len(h) : h[i] \in HexDigits
    /\ Len(h) <= 4

\* IPv6Address._split_scope_id: the address part, or "bad" when it raises.
SplitScopeId(s) ==
    IF ~Contains(s, "%") THEN [ok |-> TRUE, addr |-> s]
    ELSE LET p == Split(s, "%")
         IN  IF Len(p) > 2 \/ p[2] = <<>>
             THEN [ok |-> FALSE, addr |-> <<>>]
             ELSE [ok |-> TRUE, addr |-> p[1]]

\* IPv6Address._ip_int_from_string: TRUE when it returns.
IPv6FromStringOk(s) ==
    /\ s /= <<>>
    /\ LET parts0 == Split(s, ":")
           last   == parts0[Len(parts0)]
           v4tail == Contains(last, ".")
           \* the IPv4 suffix is replaced by two hextets
           parts  == IF v4tail
                     THEN SubSeq(parts0, 1, Len(parts0) - 1) \o <<<<"0">>, <<"0">>>>
                     ELSE parts0
           n      == Len(parts)
           skips  == {i \in 2..(n - 1) : parts[i] = <<>>}
       IN  /\ Len(parts0) >= 3
           /\ v4tail => IPv4AddressOk(last)
           /\ n <= 8 + 1
           /\ Cardinality(skips) <= 1
           /\ IF skips /= {}
              THEN LET skip_index == CHOOSE i \in skips : TRUE
                       hi0 == skip_index - 1
                       lo0 == n - skip_index
                       parts_hi == IF parts[1] = <<>> THEN hi0 - 1 ELSE hi0
                       parts_lo == IF parts[n] = <<>> THEN lo0 - 1 ELSE lo0
                   IN  /\ (parts[1] = <<>>) => parts_hi = 0
                       /\ (parts[n] = <<>>) => parts_lo = 0
                       /\ 8 - (parts_hi + parts_lo) >= 1
                       /\ \A i \in 1..parts_hi : ParseHextetOk(parts[i])
                       /\ \A i \in (n - parts_lo + 1)..n : ParseHextetOk(parts[i])
              ELSE /\ n = 8
                   /\ parts[1] /= <<>>
                   /\ parts[n] /= <<>>
                   /\ \A i \in 1..n : ParseHextetOk(parts[i])

\* IPv6Address(addr)
IPv6AddressOk(s) ==
    /\ ~Contains(s, "/")
    /\ SplitScopeId(s).ok
    /\ IPv6FromStringOk(SplitScopeId(s).addr)

\* ipaddress.ip_address(value) on a string: "returns" or "ValueError".
IpAddress(s) ==
    IF IPv4AddressOk(s) THEN "returns"
    ELSE IF IPv6AddressOk(s) THEN "returns"
    ELSE "ValueError"

\* core/lookup.py is_valid_ip: "True" / "False", or "raised" for an exception
\* the except clause does not catch.
is_valid_ip(s) ==
    LET r == IpAddress(s)
    IN  IF r = "returns" THEN "True"
        ELSE IF r = "ValueError" THEN "False"
        ELSE "raised"

(***************************************************************************)
(* JSON values and the Python conversions the scripts apply to them        *)
(***************************************************************************)

\* A field of a JSON object: absent, null, a number or a string.
Missing == [k |-> "missing", n |-> 0, s |-> <<>>]
Null == [k |-> "null", n |-> 0, s |-> <<>>]
Num(x) == [k |-> "int", n |-> x, s |-> <<>>]
Str(t) == [k |-> "str", n |-> 0, s |-> t]

LowerCase == <<"a", "b", "c", "d", "e", "f", "g", "h", "i", "j", "k", "l", "m", "n", "o", "p", "q", "r", "s", "t", "u", "v", "w", "x", "y", "z">>
UpperCase == <<"A", "B", "C", "D", "E", "F", "G", "H", "I", "J", "K", "L", "M", "N", "O", "P", "Q", "R", "S", "T", "U", "V", "W", "X", "Y", "Z">>

UpperChar(c) ==
    IF \E i \in 1..26 : LowerCase[i] = c
    THEN UpperCase[CHOOSE i \in 1..26 : LowerCase[i] = c]
    ELSE c

LowerChar(c) ==
    IF \E i \in 1..26 : UpperCase[i] = c
    THEN LowerCase[CHOOSE i \in 1..26 : UpperCase[i] = c]
    ELSE c

\* str.upper() and str.lower()
Upper(s) == [i \in 1..Len(s) |-> UpperChar(s[i])]
Lower(s) == [i \in 1..Len(s) |-> LowerChar(s[i])]

\* s.startswith(p)
StartsWith(s, p) == Len(s) >= Len(p) /\ SubSeq(s, 1, Len(p)) = p

\* needle in hay
IsSubstring(needle, hay) ==
    \E i \in 0..(Len(hay) - Len(needle)) :
        SubSeq(hay, i + 1, i + Len(needle)) = needle

RECURSIVE Strip(_)
\* str.strip()
Strip(s) ==
    IF s = <<>> THEN s
    ELSE IF s[1] = " " THEN Strip(Tail(s))
    ELSE IF s[Len(s)] = " " THEN Strip(SubSeq(s, 1, Len(s) - 1))
    ELSE s

\* d.get(key, default)
Get(v, default) == IF v.k = "missing" THEN default ELSE v

\* bool(v) is False
Falsy(v) ==
    \/ v.k = "null"
    \/ v.k = "int" /\ v.n = 0
    \/ v.k = "str" /\ v.s = <<>>

\* v or d
Or(v, d) == IF Falsy(v) THEN d ELSE v

\* str(v)
PyStr(v) ==
    CASE v.k = "int" -> Numeral(v.n)
      [] v.k = "null" -> <<"N", "o", "n", "e">>
      [] v.k = "str" -> v.s

\* int(v): ok is FALSE when it raises (TypeError for None, ValueError for text
\* that is no number).
PyInt(v) ==
    CASE v.k = "int" -> [ok |-> TRUE, n |-> v.n]
      [] v.k = "null" -> [ok |-> FALSE, n |-> 0]
      [] v.k = "str" ->
            IF v.s /= <<>> /\ \A i \in 1..Len(v.s) : v.s[i] \in DecDigits
            THEN [ok |-> TRUE, n |-> DecValue(v.s)]
            ELSE [ok |-> FALSE, n |-> 0]

(***************************************************************************)
(* Upstream extraction: asn_integrity_audit.get_upstreams and the two      *)
(* get_top_upstreams                                                       *)
(***************************************************************************)

\* asn_path_finder.normalise_asn
normalise_asn_path(v) ==
    LET text == PyStr(v)
    IN  IF StartsWith(Upper(text), <<"A", "S">>) THEN text ELSE <<"A", "S">> \o text

\* sovereignty_audit.normalise_asn
normalise_asn_sov(v) ==
    LET text == Upper(Strip(PyStr(v)))
    IN  IF StartsWith(text, <<"A", "S">>) THEN text ELSE <<"A", "S">> \o text

\* asn_integrity_audit.normalise_asn (bgp_hijack_check and rpki_check define the
\* same function)
normalise_asn(t) ==
    LET v == Upper(Strip(t))
    IN  IF StartsWith(v, <<"A", "S">>) THEN v ELSE <<"A", "S">> \o v

RECURSIVE SortAsc(_, _)
\* the same sort without reverse=True
SortAsc(ixs, key) ==
    IF ixs = <<>> THEN <<>>
    ELSE LET best == CHOOSE p \in 1..Len(ixs) :
                        /\ \A q \in 1..Len(ixs) : key[ixs[q]] >= key[ixs[p]]
                        /\ \A q \in 1..(p - 1) : key[ixs[q]] > key[ixs[p]]
         IN  <<ixs[best]>> \o
             SortAsc(SubSeq(ixs, 1, best - 1) \o SubSeq(ixs, best + 1, Len(ixs)), key)

RECURSIVE SortDesc(_, _)
\* list.sort(key=..., reverse=True) on a list of indices: descending by key,
\* equal keys in their original order.
SortDesc(ixs, key) ==
    IF ixs = <<>> THEN <<>>
    ELSE LET best == CHOOSE p \in 1..Len(ixs) :
                        /\ \A q \in 1..Len(ixs) : key[ixs[q]] <= key[ixs[p]]
                        /\ \A q \in 1..(p - 1) : key[ixs[q]] < key[ixs[p]]
         IN  <<ixs[best]>> \o
             SortDesc(SubSeq(ixs, 1, best - 1) \o SubSeq(ixs, best + 1, Len(ixs)), key)

\* l[:3]
Top3(l) == SubSeq(l, 1, IF Len(l) < 3 THEN Len(l) ELSE 3)

Raised == [raised |-> TRUE, rows |-> <<>>, from |-> <<>>]
Returned(rows, from) == [raised |-> FALSE, rows |-> rows, from |-> from]

NoNeighbours == [islist |-> FALSE, items |-> <<>>]
NoUpstreams == Returned(<<>>, <<>>)

\* str(n.get("type", "")).lower() == "left"
IsLeft(n) == Lower(PyStr(Get(n.type, Str(<<>>)))) = <<"l", "e", "f", "t">>

\* The extraction of asn_path_finder.get_top_upstreams from the "neighbours"
\* field nb of the response data.  from[k] is the position in nb.items of the
\* entry that row k was built from.
get_top_upstreams_path(nb) ==
    IF ~nb.islist THEN Returned(<<>>, <<>>)
    ELSE LET items == nb.items
             all == [i \in 1..Len(items) |-> i]
             IsLeftObj(i) == items[i].obj /\ IsLeft(items[i])
             left == SelectSeq(all, IsLeftObj)
             IntOr0(v) == PyInt(Or(Get(v, Num(0)), Num(0)))
             key == [i \in 1..Len(items) |-> IntOr0(items[i].power).n]
             top == Top3(SortDesc(left, key))
             Row(i) == [asn |-> normalise_asn_path(Get(items[i].asn, Str(<<"U", "n", "k", "n", "o", "w", "n">>))),
                        power |-> IntOr0(items[i].power).n,
                        v4_peers |-> IntOr0(items[i].v4_peers).n,
                        v6_peers |-> IntOr0(items[i].v6_peers).n]
         IN  IF \/ \E p \in 1..Len(left) : ~IntOr0(items[left[p]].power).ok
                \/ \E p \in 1..Len(top) :
                      \/ ~IntOr0(items[top[p]].v4_peers).ok
                      \/ ~IntOr0(items[top[p]].v6_peers).ok
             THEN Raised
             ELSE Returned([p \in 1..Len(top) |-> Row(top[p])], top)

\* The extraction of sovereignty_audit.get_top_upstreams.
get_top_upstreams_sov(nb) ==
    IF ~nb.islist THEN Returned(<<>>, <<>>)
    ELSE LET items == nb.items
             all == [i \in 1..Len(items) |-> i]
             IsLeftObj(i) == items[i].obj /\ IsLeft(items[i])
             left == SelectSeq(all, IsLeftObj)
             IntOr0(v) == PyInt(Or(Get(v, Num(0)), Num(0)))
             key == [i \in 1..Len(items) |-> IntOr0(items[i].power).n]
             top == Top3(SortDesc(left, key))
             Row(i) == [asn |-> normalise_asn_sov(Get(items[i].asn, Str(<<"U", "n", "k", "n", "o", "w", "n">>))),
                        power |-> IntOr0(items[i].power).n,
                        v4_peers |-> IntOr0(items[i].v4_peers).n,
                        v6_peers |-> IntOr0(items[i].v6_peers).n]
         IN  IF \/ \E p \in 1..Len(left) : ~IntOr0(items[left[p]].power).ok
                \/ \E p \in 1..Len(top) :
                      \/ ~IntOr0(items[top[p]].v4_peers).ok
                      \/ ~IntOr0(items[top[p]].v6_peers).ok
             THEN Raised
             ELSE Returned([p \in 1..Len(top) |-> Row(top[p])], top)

\* asn_integrity_audit.get_upstreams on the list analyse_asn passes it (the
\* "neighbours" field, or [] when that is no list).  An entry that is no object
\* has no .get, and int(None) raises.
get_upstreams(nb) ==
    LET items == IF nb.islist THEN nb.items ELSE <<>>
        all == [i \in 1..Len(items) |-> i]
        IsLeftIdx(i) == IsLeft(items[i])
        left == SelectSeq(all, IsLeftIdx)
        Int0(v) == PyInt(Get(v, Num(0)))
        key == [i \in 1..Len(items) |-> Int0(items[i].power).n]
        top == Top3(SortDesc(left, key))
        Row(i) == [asn |-> normalise_asn(PyStr(Get(items[i].asn, Str(<<"U", "N", "K", "N", "O", "W", "N">>)))),
                   power |-> Int0(items[i].power).n,
                   v4_peers |-> Int0(items[i].v4_peers).n,
                   v6_peers |-> Int0(items[i].v6_peers).n]
    IN  IF \/ \E i \in 1..Len(items) : ~items[i].obj
           \/ \E p \in 1..Len(left) : ~Int0(items[left[p]].power).ok
           \/ \E p \in 1..Len(top) :
                 \/ ~Int0(items[top[p]].v4_peers).ok
                 \/ ~Int0(items[top[p]].v6_peers).ok
        THEN Raised
        ELSE Returned([p \in 1..Len(top) |-> Row(top[p])], top)

(***************************************************************************)
(* The values of the variables a run does not use                          *)
(***************************************************************************)

NoPayload ==
    [asns |-> "none", holder |-> Missing, type |-> Missing,
     located |-> "none", location |-> Missing]
NoReport ==
    [holder |-> <<>>, country |-> <<>>, is_high_risk |-> FALSE,
     is_cloud |-> FALSE, is_anonymised |-> FALSE]
NoCall ==
    [url |-> "none", resource |-> <<>>, retry |-> FALSE, at |-> "idle",
     status |-> 0, first |-> 0, gets |-> 0, sleeps |-> 0]
NoBase == [prefix |-> <<>>, origin_asn |-> <<>>]
NoBody == [data |-> "missing", prefixes |-> "missing", items |-> <<>>]
NotAsked == [state |-> "unasked", body |-> NoBody]
NoFetch ==
    [asn |-> <<>>, at |-> "idle", source |-> "none", prefixes |-> {},
     announced |-> NotAsked, ris |-> NotAsked]

IdleLookup == value = <<>> /\ result = "none"
IdleUpstreams == neighbours = NoNeighbours /\ upstreams = NoUpstreams
IdleIpLookup == payload = NoPayload /\ report = NoReport
IdleWire == log = <<>> /\ rq = NoCall
IdlePath == base = NoBase /\ path_asns = <<>> /\ seen = {}
IdleHijack ==
    /\ targets = <<>>
    /\ results = <<>>
    /\ asn_prefix_cache = {}
    /\ fetch = NoFetch
IdleRuns == IdleWire /\ IdlePath /\ IdleHijack /\ exit_code = -1

(***************************************************************************)
(* The strings is_valid_ip is applied to                                   *)
(***************************************************************************)

MaxOctets == 5      \* dot-separated fields of a generated input
MaxHextets == 9     \* colon-separated fields of a generated input

GoodOctets == {<<"8">>, <<"0">>, <<"2", "5", "5">>}
OddOctets ==
    {<<>>, <<"2", "5", "6">>, <<"0", "1">>, <<"1", "2", "3", "4">>, <<"a">>,
     <<"9", "9", "9">>, <<" ", "8">>, <<"8", "/", "8">>}

GoodHextets == {<<>>, <<"1", "f">>}
OddHextets ==
    {<<"g">>, <<"1", "2", "3", "4", "5">>, <<"F", "F", "F", "F">>,
     <<"1", ".", "2", ".", "3", ".", "4">>,
     <<"1", ".", "2", ".", "3", ".", "2", "5", "6">>,
     <<"1", "%", "e">>, <<"1", "%">>, <<"1", "%", "e", "%", "e">>}

\* parts with the i-th replaced by tok (unchanged when there is no i-th)
Splice(parts, i, tok) ==
    [k \in 1..Len(parts) |-> IF k = i THEN tok ELSE parts[k]]

V4Inputs ==
    {Join(Splice(b, i, t), ".") :
        b \in SeqUpTo(GoodOctets, MaxOctets), i \in 0..MaxOctets, t \in OddOctets}

V6Inputs ==
    {Join(Splice(b, i, t), ":") :
        b \in SeqUpTo(GoodHextets, MaxHextets), i \in 0..MaxHextets, t \in OddHextets}

\* the three strings of tests/test_lookup.py
TestValidV4 == <<"8", ".", "8", ".", "8", ".", "8">>
TestValidV6 ==
    <<"2", "0", "0", "1", ":", "4", "8", "6", "0", ":", "4", "8", "6", "0",
      ":", ":", "8", "8", "8", "8">>
TestInvalid == <<"9", "9", "9", ".", "9", "9", "9", ".", "1", ".", "1">>

LookupInputs == V4Inputs \cup V6Inputs \cup {TestValidV4, TestValidV6, TestInvalid}

(***************************************************************************)
(* is_valid_ip applied to one string                                       *)
(***************************************************************************)

InitLookup ==
    /\ script = "lookup"
    /\ pc = "call"
    /\ value \in LookupInputs
    /\ result = "none"
    /\ IdleUpstreams /\ IdleIpLookup /\ IdleRuns

IsValidIpCall ==
    /\ script = "lookup"
    /\ pc = "call"
    /\ result' = is_valid_ip(value)
    /\ pc' = "done"
    /\ UNCHANGED <<script, value, upVars, ipVars, wireVars, pathVars, hijackVars,
                   exit_code>>

NextLookup == IsValidIpCall

SpecLookup == InitLookup /\ [][NextLookup]_vars

(***************************************************************************)
(* The asn-neighbours responses the extractions are applied to             *)
(***************************************************************************)

MaxNeighbours == 4      \* entries of a generated "neighbours" list

Entry(type, asn, power, v4, v6) ==
    [obj |-> TRUE, type |-> type, asn |-> asn, power |-> power,
     v4_peers |-> v4, v6_peers |-> v6]

\* an entry that is no JSON object (a string or a number in the list)
NotAnObject ==
    [obj |-> FALSE, type |-> Missing, asn |-> Missing, power |-> Missing,
     v4_peers |-> Missing, v6_peers |-> Missing]

NeighbourPool ==
    {Entry(Str(<<"l", "e", "f", "t">>), Num(1), Num(5), Num(10), Num(2)),
     Entry(Str(<<"L", "E", "F", "T">>), Str(<<"a", "s", "2">>), Num(3), Missing, Null),
     Entry(Str(<<"l", "e", "f", "t">>), Num(4), Num(3), Num(0), Num(0)),
     Entry(Str(<<"l", "e", "f", "t">>), Num(5), Num(7), Num(1), Num(1)),
     Entry(Str(<<"l", "e", "f", "t">>), Missing, Missing, Num(1), Missing),
     Entry(Str(<<"l", "e", "f", "t">>), Null, Null, Null, Num(1)),
     Entry(Str(<<"r", "i", "g", "h", "t">>), Num(3), Num(9), Num(1), Num(1)),
     Entry(Missing, Num(6), Num(8), Num(1), Num(1)),
     NotAnObject}

NeighbourInputs ==
    {[islist |-> TRUE, items |-> l] : l \in SeqUpTo(NeighbourPool, MaxNeighbours)}
    \cup {NoNeighbours}

UpstreamScripts == {"asn_integrity_audit", "asn_path_finder", "sovereignty_audit"}

InitUpstreams ==
    /\ script \in UpstreamScripts
    /\ pc = "extract"
    /\ neighbours \in NeighbourInputs
    /\ upstreams = NoUpstreams
    /\ IdleLookup /\ IdleIpLookup /\ IdleRuns

\* asn_integrity_audit.analyse_asn extracts the upstreams of the response
AuditGetUpstreams ==
    /\ script = "asn_integrity_audit"
    /\ pc = "extract"
    /\ upstreams' = get_upstreams(neighbours)
    /\ pc' = "extracted"
    /\ UNCHANGED <<script, neighbours, lookupVars, ipVars, wireVars, pathVars,
                   hijackVars, exit_code>>

\* asn_path_finder.get_top_upstreams extracts the upstreams of the response
PathGetTopUpstreams ==
    /\ script = "asn_path_finder"
    /\ pc = "extract"
    /\ upstreams' = get_top_upstreams_path(neighbours)
    /\ pc' = "extracted"
    /\ UNCHANGED <<script, neighbours, lookupVars, ipVars, wireVars, pathVars,
                   hijackVars, exit_code>>

\* sovereignty_audit.get_top_upstreams extracts the upstreams of the response
SovGetTopUpstreams ==
    /\ script = "sovereignty_audit"
    /\ pc = "extract"
    /\ upstreams' = get_top_upstreams_sov(neighbours)
    /\ pc' = "extracted"
    /\ UNCHANGED <<script, neighbours, lookupVars, ipVars, wireVars, pathVars,
                   hijackVars, exit_code>>

NextUpstreams == AuditGetUpstreams \/ PathGetTopUpstreams \/ SovGetTopUpstreams

SpecUpstreams == InitUpstreams /\ [][NextUpstreams]_vars

(***************************************************************************)
(* core/ip_lookup.py: analyse_ip                                           *)
(***************************************************************************)

HIGH_RISK_COUNTRIES == {<<"R", "U">>, <<"C", "N">>, <<"I", "R">>, <<"K", "P">>, <<"S", "Y">>}
CLOUD_INDICATORS ==
    {<<"A", "W", "S">>, <<"A", "M", "A", "Z", "O", "N">>, <<"G", "O", "O", "G", "L", "E">>, <<"A", "Z", "U", "R", "E">>, <<"H", "E", "T", "Z", "N", "E", "R">>, <<"D", "I", "G", "I", "T", "A", "L", "O", "C", "E", "A", "N">>, <<"O", "V", "H">>}
ANONYMISER_INDICATORS == {<<"V", "P", "N">>, <<"P", "R", "O", "X", "Y">>, <<"T", "O", "R">>, <<"M", "U", "L", "L", "V", "A", "D">>}

\* contains_indicator without text.upper()
contains_indicator_as_is(text, indicators) ==
    \E indicator \in indicators : IsSubstring(indicator, text)

\* contains_indicator
contains_indicator(text, indicators) ==
    LET upper == Upper(text)
    IN  \E indicator \in indicators : IsSubstring(indicator, upper)

\* holder as analyse_ip derives it from the prefix-overview response
HolderOf(p) ==
    IF p.asns = "obj"
    THEN PyStr(Or(Get(p.holder, Null), Str(<<"U", "N", "K", "N", "O", "W", "N">>)))
    ELSE <<"U", "N", "K", "N", "O", "W", "N">>

\* country as analyse_ip derives it from the rir-stats-country response
CountryOf(p) ==
    IF p.located = "obj" /\ p.location.k = "str" /\ p.location.s /= <<>>
    THEN Upper(p.location.s)
    ELSE <<"U", "N", "K", "N", "O", "W", "N">>

\* usage_type
UsageTypeOf(p) == PyStr(Or(Get(p.type, Null), Str(<<"u", "n", "k", "n", "o", "w", "n">>)))

\* The classification part of the object analyse_ip returns (its asn, rir,
\* country_name and abuse_email fields take no part in it and are left out).
analyse_ip(p) ==
    LET holder == HolderOf(p)
        country == CountryOf(p)
        detection_text == holder \o <<" ">> \o UsageTypeOf(p)
    IN  [holder |-> holder,
         country |-> country,
         is_high_risk |-> country \in HIGH_RISK_COUNTRIES,
         is_cloud |-> contains_indicator(holder, CLOUD_INDICATORS),
         is_anonymised |-> contains_indicator(detection_text, ANONYMISER_INDICATORS)]

MaxWords == 2       \* pieces a generated holder name is made of

HolderPieces ==
    {<<"A", "c", "m", "e", " ">>, <<"a", "w", "s">>, <<"A", "m", "a", "z", "o", "n">>, <<"O", "v", "h">>, <<"V", "p", "n">>, <<"p", "r", "o", "x", "y", " ">>, <<"t", "o">>, <<"r">>,
     <<"M", "u", "l", "l", "v", "a", "d">>}

\* holders naming the remaining indicators
NamedHolders ==
    {<<"G", "o", "o", "g", "l", "e", " ", "L", "L", "C">>, <<"M", "i", "c", "r", "o", "s", "o", "f", "t", " ", "A", "z", "u", "r", "e">>, <<"H", "e", "t", "z", "n", "e", "r", " ", "O", "n", "l", "i", "n", "e", " ", "G", "m", "b", "H">>,
     <<"D", "I", "G", "I", "T", "A", "L", "O", "C", "E", "A", "N", "-", "A", "S", "N">>, <<"U", "N", "K", "N", "O", "W", "N">>}

HolderInputs ==
    {Str(Concat(w)) : w \in SeqUpTo(HolderPieces, MaxWords)}
    \cup {Str(h) : h \in NamedHolders} \cup {Missing, Null}

TypeInputs == {Missing, Str(<<"p", "r", "e", "f", "i", "x">>), Str(<<"T", "o", "r", " ", "e", "x", "i", "t">>)}

LocationInputs ==
    {Missing, Null, Num(7), Str(<<>>), Str(<<"R", "U">>), Str(<<"r", "u">>), Str(<<"C", "n">>),
     Str(<<"I", "R">>), Str(<<"k", "p">>), Str(<<"S", "Y">>), Str(<<"U", "S">>), Str(<<"R", "U", "S">>)}

\* what a fetch_json call can raise
\* print(...): one event of the log, naming what was written
Printed(what) == [op |-> "print", url |-> "stdout", resource |-> <<what>>, secs |-> 0]

FetchErrors == {"RequestException", "ValueError"}

\* args.json of ip_lookup and asn_integrity_audit
JsonMode == script \in {"ip_lookup --json", "asn_integrity_audit --json"}

IsIpLookup == script \in {"ip_lookup", "ip_lookup --json"}

\* a main that prints the text of a failure whatever args.json is
FailureOutputTextOnly(requestFailed) ==
    IF requestFailed
    THEN <<Printed("message"), Printed("details")>>
    ELSE <<Printed("analysis failed")>>

\* main, except branches: what is printed for a RequestException and for any
\* other Exception
FailureOutput(requestFailed) ==
    IF requestFailed
    THEN IF JsonMode THEN <<Printed("object: error, details")>>
         ELSE <<Printed("message"), Printed("details")>>
    ELSE IF JsonMode THEN <<Printed("object: error")>>
         ELSE <<Printed("analysis failed")>>

InitIpLookup ==
    /\ IsIpLookup
    /\ pc = "prefix-overview"
    /\ IdleLookup /\ IdleUpstreams /\ IdleIpLookup /\ IdleRuns

\* fetch_json(PREFIX_OVERVIEW_URL, ip): the response, or an exception
FetchPrefixOverview ==
    /\ IsIpLookup
    /\ pc = "prefix-overview"
    /\ \/ /\ \E e \in FetchErrors : pc' = e
          /\ UNCHANGED payload
       \/ /\ pc' = "rir-stats-country"
          /\ \/ \E a \in {"none", "notobj"} :
                \E t \in TypeInputs :
                    payload' = [payload EXCEPT !.asns = a, !.type = t]
             \/ \E h \in HolderInputs : \E t \in TypeInputs :
                    payload' = [payload EXCEPT !.asns = "obj", !.holder = h, !.type = t]
    /\ UNCHANGED <<script, report, lookupVars, upVars, wireVars, pathVars,
                   hijackVars, exit_code>>

\* fetch_json(RIR_STATS_COUNTRY_URL, ip)
FetchRirStatsCountry ==
    /\ IsIpLookup
    /\ pc = "rir-stats-country"
    /\ \/ /\ \E e \in FetchErrors : pc' = e
          /\ UNCHANGED payload
       \/ /\ pc' = "abuse-contact-finder"
          /\ \/ \E l \in {"none", "notobj"} :
                    payload' = [payload EXCEPT !.located = l]
             \/ \E c \in LocationInputs :
                    payload' = [payload EXCEPT !.located = "obj", !.location = c]
    /\ UNCHANGED <<script, report, lookupVars, upVars, wireVars, pathVars,
                   hijackVars, exit_code>>

\* fetch_json(ABUSE_CONTACT_URL, ip), and the rest of analyse_ip
FetchAbuseContactAndClassify ==
    /\ IsIpLookup
    /\ pc = "abuse-contact-finder"
    /\ \/ /\ \E e \in FetchErrors : pc' = e
          /\ UNCHANGED report
       \/ /\ pc' = "returned"
          /\ report' = analyse_ip(payload)
    /\ UNCHANGED <<script, payload, lookupVars, upVars, wireVars, pathVars,
                   hijackVars, exit_code>>

\* main: the outcome of analyse_ip is printed, as one JSON object with --json
\* (the lines of the text report are not told apart), and main returns 0 for a
\* result and 1 for an exception
IpLookupMain ==
    /\ IsIpLookup
    /\ pc \in FetchErrors \cup {"returned"}
    /\ IF pc = "returned"
       THEN /\ log' = log \o (IF JsonMode THEN <<Printed("object: result")>>
                               ELSE <<Printed("text report")>>)
            /\ exit_code' = 0
       ELSE /\ log' = log \o FailureOutput(pc = "RequestException")
            /\ exit_code' = 1
    /\ pc' = "done"
    /\ UNCHANGED <<script, payload, report, rq, lookupVars, upVars, pathVars,
                   hijackVars>>

NextIpLookup ==
    \/ FetchPrefixOverview
    \/ FetchRirStatsCountry
    \/ FetchAbuseContactAndClassify
    \/ IpLookupMain

SpecIpLookup == InitIpLookup /\ [][NextIpLookup]_vars

(***************************************************************************)
(* One HTTP call: requests.get, the retry of request_json, and             *)
(* raise_for_status                                                        *)
(***************************************************************************)

RETRY_DELAY_SECONDS == 1

\* the status codes an endpoint answers with
Statuses == {200, 429, 500}

Request(u, r) == [op |-> "GET", url |-> u, resource |-> r, secs |-> 0]
Slept(secs) == [op |-> "sleep", url |-> "", resource |-> <<>>, secs |-> secs]

\* A call about to issue its first GET.  retry tells request_json (which
\* retries a 429 once) from a plain requests.get + raise_for_status.
NewCall(u, r, retry) ==
    [url |-> u, resource |-> r, retry |-> retry, at |-> "get", status |-> 0,
     first |-> 0, gets |-> 0, sleeps |-> 0]

\* the call has returned or raised
CallOver(c) == c.at \in {"returned", "raised", "invalid-json"}
CallRaised(c) == c.at \in {"raised", "invalid-json"}

\* a retry on any error status
RetriesOnAnyError(status) == status >= 400

\* request_json: if response.status_code == 429
Retries(status) == status = 429

\* requests.get(url, ...): a response with some status, or an exception
HttpGet ==
    /\ rq.at = "get"
    /\ log' = Append(log, Request(rq.url, rq.resource))
    /\ \/ rq' = [rq EXCEPT !.at = "raised", !.gets = @ + 1]
       \/ \E s \in Statuses :
             rq' = [rq EXCEPT !.at = "check", !.status = s, !.first = s, !.gets = @ + 1]
    /\ UNCHANGED <<script, pc, lookupVars, upVars, ipVars, pathVars, hijackVars,
                   exit_code>>

\* request_json: time.sleep(RETRY_DELAY_SECONDS) after a 429
HttpRetrySleep ==
    /\ rq.at = "check"
    /\ rq.retry /\ Retries(rq.status)
    /\ log' = Append(log, Slept(RETRY_DELAY_SECONDS))
    /\ rq' = [rq EXCEPT !.at = "retry", !.sleeps = @ + 1]
    /\ UNCHANGED <<script, pc, lookupVars, upVars, ipVars, pathVars, hijackVars,
                   exit_code>>

\* request_json: the second requests.get
HttpRetryGet ==
    /\ rq.at = "retry"
    /\ log' = Append(log, Request(rq.url, rq.resource))
    /\ \/ rq' = [rq EXCEPT !.at = "raised", !.gets = @ + 1]
       \/ \E s \in Statuses :
             rq' = [rq EXCEPT !.at = "last", !.status = s, !.gets = @ + 1]
    /\ UNCHANGED <<script, pc, lookupVars, upVars, ipVars, pathVars, hijackVars,
                   exit_code>>

\* response.raise_for_status() and response.json().get("data", {}): the call
\* returns the data, or raises for an error status, for a body that is no
\* JSON (a JSONDecodeError, which is a ValueError) or for a body or data that
\* is no object
HttpRaiseForStatus ==
    /\ \/ rq.at = "check" /\ ~(rq.retry /\ Retries(rq.status))
       \/ rq.at = "last"
    /\ IF rq.status >= 400
       THEN rq' = [rq EXCEPT !.at = "raised"]
       ELSE \E a \in {"returned", "raised", "invalid-json"} :
               rq' = [rq EXCEPT !.at = a]
    /\ UNCHANGED <<script, pc, log, lookupVars, upVars, ipVars, pathVars,
                   hijackVars, exit_code>>

(***************************************************************************)
(* core/asn_path_finder.py: analyse and main                               *)
(***************************************************************************)

MaxPathLen == 3     \* ASNs on a generated AS path

Unknown == <<"U", "n", "k", "n", "o", "w", "n">>
TargetIp == <<"1", "9", "3", ".", "0", ".", "6", ".", "1", "3", "9">>
TargetPrefix == <<"1", "9", "3", ".", "0", ".", "0", ".", "0", "/", "2", "1">>

\* "data" of the prefix-overview responses: resource present or not; asns
\* empty ("none"), or a first entry that is no object or has no asn, or one
\* with an asn
PrefixOverviewData ==
    {[resource |-> r, asns |-> a[1], asn |-> a[2]] :
        r \in {Missing, Str(TargetPrefix)},
        a \in {<<"none", Missing>>, <<"obj", Missing>>, <<"obj", Num(3333)>>}}

\* an observed route: the origin prepended (once as the text "AS1"), then
\* the networks on the way
RoutePool == <<Num(1), Num(1), Str(<<"A", "S", "1">>), Num(2), Num(3), Num(4)>>

\* the "path" values of the bgp-state responses: the stretches of the route
\* of at most MaxPathLen ASNs
BgpPaths ==
    {SubSeq(RoutePool, w[1], w[1] + w[2] - 1) :
        w \in {v \in (1..Len(RoutePool)) \X (0..MaxPathLen) :
                  v[1] + v[2] - 1 <= Len(RoutePool)}}

\* "data" of the bgp-state responses: no usable first entry, or its path
BgpStateData ==
    {[states |-> "none", path |-> <<>>]}
    \cup {[states |-> "obj", path |-> p] : p \in BgpPaths}

\* "neighbours" of the asn-neighbours responses
NeighboursData ==
    {NoNeighbours,
     [islist |-> TRUE,
      items |-> <<Entry(Str(<<"l", "e", "f", "t">>), Num(1), Num(5), Num(10), Num(2)),
                  NotAnObject,
                  Entry(Str(<<"l", "e", "f", "t">>), Null, Null, Null, Num(1))>>]}

\* "holder" of the as-overview responses
AsOverviewData == {Missing, Str(<<"R", "T", ",", " ", "R", "U">>)}

\* asn_path_finder.get_prefix_and_origin, after its request
get_prefix_and_origin(d) ==
    [prefix |-> PyStr(Or(Get(d.resource, Null), Str(Unknown))),
     origin_asn |-> IF d.asns = "none" THEN Unknown
                    ELSE normalise_asn_path(Get(d.asn, Str(Unknown)))]

\* asn_path_finder.get_live_as_path, after its request
get_live_as_path(d) ==
    IF d.states = "none" THEN <<>>
    ELSE [i \in 1..Len(d.path) |-> normalise_asn_path(d.path[i])]

RECURSIVE RStrip(_)
\* the text without its trailing blanks
RStrip(s) ==
    IF s /= <<>> /\ s[Len(s)] = " " THEN RStrip(SubSeq(s, 1, Len(s) - 1)) ELSE s

IsUpperLetter(c) == \E i \in 1..26 : UpperCase[i] = c

\* infer_country_from_holder: COUNTRY_TAIL_RE  ,\s*([A-Z]{2})\s*$
infer_country_from_holder(holder) ==
    LET t == RStrip(holder)
        n == Len(t)
    IN  IF /\ n >= 3
           /\ IsUpperLetter(t[n - 1]) /\ IsUpperLetter(t[n])
           /\ LET u == RStrip(SubSeq(t, 1, n - 2))
              IN  u /= <<>> /\ u[Len(u)] = ","
        THEN <<t[n - 1], t[n]>>
        ELSE <<"U", "N", "K", "N", "O", "W", "N">>

\* the path ASNs enrich_path_jurisdictions has not looked up yet
Unseen(path, sn) ==
    LET NotSeen(a) == \A e \in sn : e.asn /= a
    IN  SelectSeq(path, NotSeen)

\* enrich_path_jurisdictions: the next as-overview request, or the end of
\* analyse
EnrichStage(path, sn) ==
    IF Unseen(path, sn) /= <<>>
    THEN [pc |-> "as-overview",
          rq |-> NewCall("as-overview", Head(Unseen(path, sn)), TRUE),
          exit |-> -1]
    ELSE [pc |-> "report", rq |-> NoCall, exit |-> -1]

\* get_top_upstreams: the asn-neighbours request, unless the origin is Unknown
NeighboursStage(b, path) ==
    IF b.origin_asn /= Unknown
    THEN [pc |-> "asn-neighbours",
          rq |-> NewCall("asn-neighbours", b.origin_asn, TRUE),
          exit |-> -1]
    ELSE EnrichStage(path, {})

\* a get_live_as_path that asks bgp-state about the address itself
BgpStageAsksIp(b) ==
    IF b.prefix /= Unknown
    THEN [pc |-> "bgp-state", rq |-> NewCall("bgp-state", TargetIp, TRUE), exit |-> -1]
    ELSE NeighboursStage(b, <<>>)

\* get_live_as_path: the bgp-state request, unless the prefix is Unknown
BgpStage(b) ==
    IF b.prefix /= Unknown
    THEN [pc |-> "bgp-state", rq |-> NewCall("bgp-state", b.prefix, TRUE), exit |-> -1]
    ELSE NeighboursStage(b, <<>>)

InitPathFinder ==
    /\ script = "asn_path_finder"
    /\ pc = "prefix-overview"
    /\ value = TargetIp
    /\ rq = NewCall("prefix-overview", value, TRUE)
    /\ log = <<>>
    /\ result = "none"
    /\ exit_code = -1
    /\ IdlePath /\ IdleHijack /\ IdleUpstreams /\ IdleIpLookup

\* main: an exception of analyse is reported in one line ("Network error" or
\* "Unexpected analysis error") and main returns 1
PathFail ==
    /\ log' = Append(log, Printed("error line"))
    /\ pc' = "failed"
    /\ exit_code' = 1
    /\ rq' = NoCall

\* get_prefix_and_origin handles the prefix-overview response; analyse sleeps
\* and goes on to get_live_as_path
PathHandlePrefixOverview ==
    /\ script = "asn_path_finder" /\ pc = "prefix-overview"
    /\ CallOver(rq)
    /\ IF CallRaised(rq)
       THEN PathFail /\ UNCHANGED base
       ELSE \E d \in PrefixOverviewData :
               LET b == get_prefix_and_origin(d)
                   next == BgpStage(b)
               IN  /\ base' = b
                   /\ pc' = next.pc /\ rq' = next.rq /\ exit_code' = next.exit
                   /\ log' = IF b.prefix /= Unknown
                             THEN Append(log, Slept(RETRY_DELAY_SECONDS))
                             ELSE log \o <<Slept(RETRY_DELAY_SECONDS),
                                           Slept(RETRY_DELAY_SECONDS)>>
    /\ UNCHANGED <<script, path_asns, seen, upstreams, neighbours, lookupVars,
                   ipVars, hijackVars>>

\* get_live_as_path handles the bgp-state response; analyse sleeps and goes on
\* to get_top_upstreams
PathHandleBgpState ==
    /\ script = "asn_path_finder" /\ pc = "bgp-state"
    /\ CallOver(rq)
    /\ IF CallRaised(rq)
       THEN PathFail /\ UNCHANGED path_asns
       ELSE \E d \in BgpStateData :
               LET path == get_live_as_path(d)
                   next == NeighboursStage(base, path)
               IN  /\ path_asns' = path
                   /\ pc' = next.pc /\ rq' = next.rq /\ exit_code' = next.exit
                   /\ log' = Append(log, Slept(RETRY_DELAY_SECONDS))
    /\ UNCHANGED <<script, base, seen, upstreams, neighbours, lookupVars, ipVars,
                   hijackVars>>

\* get_top_upstreams handles the asn-neighbours response; analyse goes on to
\* enrich_path_jurisdictions
PathHandleAsnNeighbours ==
    /\ script = "asn_path_finder" /\ pc = "asn-neighbours"
    /\ CallOver(rq)
    /\ IF CallRaised(rq)
       THEN PathFail /\ UNCHANGED <<neighbours, upstreams>>
       ELSE \E nb \in NeighboursData :
               LET up == get_top_upstreams_path(nb)
                   next == EnrichStage(path_asns, {})
               IN  /\ neighbours' = nb
                   /\ upstreams' = up
                   /\ IF up.raised
                      THEN PathFail
                      ELSE /\ pc' = next.pc /\ rq' = next.rq /\ exit_code' = next.exit
                           /\ UNCHANGED log
    /\ UNCHANGED <<script, base, path_asns, seen, lookupVars, ipVars, hijackVars>>

\* enrich_path_jurisdictions handles one as-overview response, or swallows the
\* exception of the request, and goes on to the next ASN of the path
PathHandleAsOverview ==
    /\ script = "asn_path_finder" /\ pc = "as-overview"
    /\ CallOver(rq)
    /\ \E h \in AsOverviewData :
          LET holder == IF CallRaised(rq) THEN Unknown
                        ELSE PyStr(Or(Get(h, Null), Str(Unknown)))
              country == IF CallRaised(rq) THEN <<"U", "N", "K", "N", "O", "W", "N">>
                         ELSE infer_country_from_holder(holder)
              sn == seen \cup {[asn |-> rq.resource, holder |-> holder,
                                country |-> country]}
              next == EnrichStage(path_asns, sn)
          IN  /\ seen' = sn
              /\ pc' = next.pc /\ rq' = next.rq /\ exit_code' = next.exit
    /\ UNCHANGED <<script, log, base, path_asns, upstreams, neighbours, lookupVars,
                   ipVars, hijackVars>>

\* main: the report of analyse is printed, as one JSON object with --json or
\* by print_report, and main returns 0 (the progress lines that the text mode
\* prints before its requests are left out)
PathReport ==
    /\ script = "asn_path_finder" /\ pc = "report"
    /\ \E json \in BOOLEAN :
          log' = Append(log, IF json THEN Printed("object: report")
                             ELSE Printed("text report"))
    /\ exit_code' = 0
    /\ pc' = "done"
    /\ UNCHANGED <<script, rq, lookupVars, upVars, ipVars, pathVars, hijackVars>>

NextPathFinder ==
    \/ PathHandlePrefixOverview
    \/ PathHandleBgpState
    \/ PathHandleAsnNeighbours
    \/ PathHandleAsOverview
    \/ PathReport

NextHttp == HttpGet \/ HttpRetrySleep \/ HttpRetryGet \/ HttpRaiseForStatus


(***************************************************************************)
(* core/sovereignty_audit.py: audit and main                               *)
(***************************************************************************)

\* the resources the audit is started on: an IP, an ASN
AuditResources == {TargetIp, <<"a", "s", "3", "3", "3", "3">>}
\* the host given with --url
AuditUrl == <<"r", "i", "p", "e", ".", "n", "e", "t">>

\* "prefixes" of the announced-prefixes responses, as find_prefix_from_asn
\* reads them: none, or a first entry without or with a prefix
AnnouncedFirst == {[prefixes |-> "none", prefix |-> Missing],
                   [prefixes |-> "obj", prefix |-> Missing],
                   [prefixes |-> "obj", prefix |-> Str(TargetPrefix)]}

\* "data" of the rpki-validation responses
RpkiData == {[status |-> Str(<<"V", "a", "l", "i", "d">>), state |-> Missing],
             [status |-> Missing, state |-> Str(<<"i", "n", "v", "a", "l", "i", "d">>)],
             [status |-> Null, state |-> Num(1)]}

\* find_prefix_and_origin_from_ip, after its request
find_prefix_and_origin_from_ip(d) ==
    [prefix |-> PyStr(Or(Get(d.resource, Null), Str(Unknown))),
     origin_asn |-> IF d.asns = "none" THEN Unknown
                    ELSE normalise_asn_sov(Get(d.asn, Str(Unknown)))]

\* find_prefix_from_asn, after its request
find_prefix_from_asn(d) ==
    IF d.prefixes = "none" THEN Unknown
    ELSE PyStr(Or(Get(d.prefix, Null), Str(Unknown)))

\* get_path_from_prefix, after its request
get_path_from_prefix(d) ==
    IF d.states = "none" THEN <<>>
    ELSE [i \in 1..Len(d.path) |-> normalise_asn_sov(d.path[i])]

\* rpki_state, after its request
rpki_state(d) ==
    IF d.status.k = "str" /\ d.status.s /= <<>> THEN Lower(d.status.s)
    ELSE IF d.state.k = "str" /\ d.state.s /= <<>> THEN Lower(d.state.s)
    ELSE <<"u", "n", "k", "n", "o", "w", "n">>

\* audit: rpki_state requests unless the prefix or the ASN is Unknown; then
\* audit returns and main returns 0
RpkiStage(b) ==
    IF b.prefix = Unknown \/ b.origin_asn = Unknown
    THEN [pc |-> "done", rq |-> NoCall, exit |-> 0]
    ELSE [pc |-> "rpki-validation",
          rq |-> NewCall("rpki-validation", b.prefix \o <<" ">> \o b.origin_asn, FALSE),
          exit |-> -1]

\* audit: get_top_upstreams requests unless the ASN is Unknown
UpstreamStage(b) ==
    IF b.origin_asn = Unknown THEN RpkiStage(b)
    ELSE [pc |-> "asn-neighbours",
          rq |-> NewCall("asn-neighbours", b.origin_asn, FALSE), exit |-> -1]

\* collect_entities: the next as-overview request, for the first path ASN not
\* in its cache
EntityStage(b, path, sn) ==
    IF Unseen(path, sn) /= <<>>
    THEN [pc |-> "as-overview",
          rq |-> NewCall("as-overview", Head(Unseen(path, sn)), FALSE),
          exit |-> -1]
    ELSE UpstreamStage(b)

\* audit: get_path_from_prefix requests unless the prefix is Unknown
AuditPathStage(b) ==
    IF b.prefix /= Unknown
    THEN [pc |-> "bgp-state", rq |-> NewCall("bgp-state", b.prefix, FALSE), exit |-> -1]
    ELSE EntityStage(b, <<>>, {})

\* a second lookup whenever the prefix is known
TargetStageAlways(b) ==
    IF b.prefix /= Unknown
    THEN [pc |-> "prefix-overview-again",
          rq |-> NewCall("prefix-overview", Split(b.prefix, "/")[1], FALSE),
          exit |-> -1]
    ELSE AuditPathStage(b)

\* audit: a target ASN that is still Unknown is looked up from the prefix
TargetStage(b) ==
    IF b.origin_asn \in {<<>>, Unknown} /\ b.prefix /= Unknown
    THEN [pc |-> "prefix-overview-again",
          rq |-> NewCall("prefix-overview", Split(b.prefix, "/")[1], FALSE),
          exit |-> -1]
    ELSE AuditPathStage(b)

IsAudit == script \in {"sovereignty_audit", "sovereignty_audit --url"}

InitAudit ==
    /\ \/ script = "sovereignty_audit" /\ value \in AuditResources
       \/ script = "sovereignty_audit --url" /\ value = AuditUrl
    /\ pc = "start"
    /\ result = "none"
    /\ exit_code = -1
    /\ IdleWire /\ IdlePath /\ IdleHijack /\ IdleUpstreams /\ IdleIpLookup

\* main: an exception of audit is reported and main returns 1
AuditFail ==
    /\ pc' = "failed"
    /\ exit_code' = 1
    /\ rq' = NoCall

\* audit without --url: ipaddress.ip_address(resource) decides between the
\* lookup of an IP and the lookup of an ASN
AuditStart ==
    /\ script = "sovereignty_audit" /\ pc = "start"
    /\ IF IpAddress(value) = "returns"
       THEN /\ pc' = "prefix-overview"
            /\ rq' = NewCall("prefix-overview", value, FALSE)
            /\ UNCHANGED base
       ELSE /\ pc' = "announced-prefixes"
            /\ rq' = NewCall("announced-prefixes", normalise_asn_sov(Str(value)), FALSE)
            /\ base' = [NoBase EXCEPT !.origin_asn = normalise_asn_sov(Str(value))]
    /\ UNCHANGED <<script, log, path_asns, seen, lookupVars, upVars, ipVars,
                   hijackVars, exit_code>>

\* resolve_final_url_and_ip: one GET of the URL (https:// put before a bare
\* host) and getaddrinfo; either can raise
AuditResolveUrl ==
    /\ script = "sovereignty_audit --url" /\ pc = "start"
    /\ log' = Append(log, Request("target-url", <<"h", "t", "t", "p", "s", ":", "/", "/">> \o value))
    /\ \/ AuditFail
       \/ /\ pc' = "prefix-overview"
          /\ rq' = NewCall("prefix-overview", TargetIp, FALSE)
          /\ UNCHANGED exit_code
    /\ UNCHANGED <<script, base, path_asns, seen, lookupVars, upVars, ipVars,
                   hijackVars>>

\* find_prefix_and_origin_from_ip handles the prefix-overview response.
\* Without --url the call is inside "try: ... except ValueError", so a body
\* that is no JSON makes audit treat the resource as an ASN.
AuditHandlePrefixOverview ==
    /\ IsAudit /\ pc = "prefix-overview"
    /\ CallOver(rq)
    /\ IF CallRaised(rq)
       THEN IF script = "sovereignty_audit" /\ rq.at = "invalid-json"
            THEN /\ pc' = "announced-prefixes"
                 /\ rq' = NewCall("announced-prefixes",
                                  normalise_asn_sov(Str(value)), FALSE)
                 /\ base' = [NoBase EXCEPT !.origin_asn = normalise_asn_sov(Str(value))]
                 /\ UNCHANGED exit_code
            ELSE AuditFail /\ UNCHANGED base
       ELSE \E d \in PrefixOverviewData :
               LET b == find_prefix_and_origin_from_ip(d)
                   next == TargetStage(b)
               IN  /\ base' = b
                   /\ pc' = next.pc /\ rq' = next.rq /\ exit_code' = next.exit
    /\ UNCHANGED <<script, log, path_asns, seen, lookupVars, upVars, ipVars,
                   hijackVars>>

\* find_prefix_from_asn handles the announced-prefixes response
AuditHandleAnnouncedPrefixes ==
    /\ IsAudit /\ pc = "announced-prefixes"
    /\ CallOver(rq)
    /\ IF CallRaised(rq)
       THEN AuditFail /\ UNCHANGED base
       ELSE \E d \in AnnouncedFirst :
               LET b == [base EXCEPT !.prefix = find_prefix_from_asn(d)]
                   next == TargetStage(b)
               IN  /\ base' = b
                   /\ pc' = next.pc /\ rq' = next.rq /\ exit_code' = next.exit
    /\ UNCHANGED <<script, log, path_asns, seen, lookupVars, upVars, ipVars,
                   hijackVars>>

\* the second find_prefix_and_origin_from_ip, on the address of the prefix:
\* only its ASN is kept
AuditHandlePrefixOverviewAgain ==
    /\ IsAudit /\ pc = "prefix-overview-again"
    /\ CallOver(rq)
    /\ IF CallRaised(rq)
       THEN AuditFail /\ UNCHANGED base
       ELSE \E d \in PrefixOverviewData :
               LET b == [base EXCEPT
                            !.origin_asn = find_prefix_and_origin_from_ip(d).origin_asn]
                   next == AuditPathStage(b)
               IN  /\ base' = b
                   /\ pc' = next.pc /\ rq' = next.rq /\ exit_code' = next.exit
    /\ UNCHANGED <<script, log, path_asns, seen, lookupVars, upVars, ipVars,
                   hijackVars>>

\* get_path_from_prefix handles the bgp-state response
AuditHandleBgpState ==
    /\ IsAudit /\ pc = "bgp-state"
    /\ CallOver(rq)
    /\ IF CallRaised(rq)
       THEN AuditFail /\ UNCHANGED path_asns
       ELSE \E d \in BgpStateData :
               LET path == get_path_from_prefix(d)
                   next == EntityStage(base, path, {})
               IN  /\ path_asns' = path
                   /\ pc' = next.pc /\ rq' = next.rq /\ exit_code' = next.exit
    /\ UNCHANGED <<script, log, base, seen, lookupVars, upVars, ipVars, hijackVars>>

\* collect_entities: get_asn_entity handles one as-overview response, or the
\* exception is swallowed; then the next ASN of the path
AuditHandleAsOverview ==
    /\ IsAudit /\ pc = "as-overview"
    /\ CallOver(rq)
    /\ \E h \in AsOverviewData :
          LET holder == IF CallRaised(rq) THEN Unknown
                        ELSE PyStr(Or(Get(h, Null), Str(Unknown)))
              country == IF CallRaised(rq) THEN <<"U", "N", "K", "N", "O", "W", "N">>
                         ELSE infer_country_from_holder(holder)
              sn == seen \cup {[asn |-> rq.resource, holder |-> holder,
                                country |-> country]}
              next == EntityStage(base, path_asns, sn)
          IN  /\ seen' = sn
              /\ pc' = next.pc /\ rq' = next.rq /\ exit_code' = next.exit
    /\ UNCHANGED <<script, log, base, path_asns, lookupVars, upVars, ipVars,
                   hijackVars>>

\* get_top_upstreams handles the asn-neighbours response
AuditHandleAsnNeighbours ==
    /\ IsAudit /\ pc = "asn-neighbours"
    /\ CallOver(rq)
    /\ IF CallRaised(rq)
       THEN AuditFail /\ UNCHANGED <<neighbours, upstreams>>
       ELSE \E nb \in NeighboursData :
               LET up == get_top_upstreams_sov(nb)
                   next == RpkiStage(base)
               IN  /\ neighbours' = nb
                   /\ upstreams' = up
                   /\ IF up.raised
                      THEN AuditFail
                      ELSE pc' = next.pc /\ rq' = next.rq /\ exit_code' = next.exit
    /\ UNCHANGED <<script, log, base, path_asns, seen, lookupVars, ipVars, hijackVars>>

\* rpki_state handles the rpki-validation response; audit returns
AuditHandleRpki ==
    /\ IsAudit /\ pc = "rpki-validation"
    /\ CallOver(rq)
    /\ IF CallRaised(rq)
       THEN AuditFail /\ UNCHANGED result
       ELSE \E d \in RpkiData :
               /\ result' = rpki_state(d)
               /\ pc' = "done" /\ rq' = NoCall /\ exit_code' = 0
    /\ UNCHANGED <<script, value, log, base, path_asns, seen, upVars, ipVars,
                   hijackVars>>

NextAudit ==
    \/ AuditStart
    \/ AuditResolveUrl
    \/ AuditHandlePrefixOverview
    \/ AuditHandleAnnouncedPrefixes
    \/ AuditHandlePrefixOverviewAgain
    \/ AuditHandleBgpState
    \/ AuditHandleAsOverview
    \/ AuditHandleAsnNeighbours
    \/ AuditHandleRpki


(***************************************************************************)
(* scripts/bgp_hijack_check.py: fetch_prefixes_for_asn, evaluate and main  *)
(***************************************************************************)

MaxBaseline == 2     \* targets read from the baseline file

OtherPrefix == <<"8", ".", "8", ".", "8", ".", "0", "/", "2", "4">>
ThirdPrefix == <<"1", "0", ".", "0", ".", "0", ".", "0", "/", "8">>
HijackPrefixes == {TargetPrefix, OtherPrefix, ThirdPrefix}

\* the ASN column as written in a baseline or given as --expected-asn
WrittenAsns == {<<"a", "s", "3", "3", "3", "3">>, <<"1", "5", "1", "6", "9">>}

\* the --prefix argument: absent, a network, or a prefix length out of range
PrefixArgs == {<<>>, TargetPrefix, <<"8", ".", "8", ".", "8", ".", "0", "/", "3", "3">>}

\* parse_expected_file: a dict keyed by prefix, so its items have distinct
\* prefixes, each with a normalised ASN
Baselines ==
    {b \in SeqUpTo(HijackPrefixes \X {normalise_asn(a) : a \in WrittenAsns},
                   MaxBaseline) :
        \A i, j \in 1..Len(b) : i /= j => b[i][1] /= b[j][1]}

\* ipaddress.ip_network(text, strict=False) for "address" or "address/length":
\* TRUE when it returns, FALSE when it raises ValueError.  (Netmask notation
\* after the slash is not among the inputs.)
IpNetworkOk(text) ==
    LET parts == Split(text, "/")
        LengthOk(l, max) ==
            /\ l /= <<>>
            /\ \A i \in 1..Len(l) : l[i] \in DecDigits
            /\ DecValue(l) <= max
    IN  /\ Len(parts) <= 2
        /\ \/ IPv4AddressOk(parts[1]) /\ (Len(parts) = 2 => LengthOk(parts[2], 32))
           \/ IPv6AddressOk(parts[1]) /\ (Len(parts) = 2 => LengthOk(parts[2], 128))

\* one item of "prefixes": an object with or without a text "prefix", a text,
\* or something else
PrefixObj(p) == [kind |-> "dict", p |-> p]
PrefixText(t) == [kind |-> "str", p |-> Str(t)]

\* the bodies the two endpoints answer with
PrefixPayloads ==
    {[data |-> "null", prefixes |-> "missing", items |-> <<>>],
     [data |-> "missing", prefixes |-> "missing", items |-> <<>>],
     [data |-> "obj", prefixes |-> "other", items |-> <<>>],
     [data |-> "obj", prefixes |-> "list", items |-> <<>>],
     [data |-> "obj", prefixes |-> "list",
      items |-> <<PrefixObj(Str(TargetPrefix))>>],
     [data |-> "obj", prefixes |-> "list",
      items |-> <<PrefixObj(Null), PrefixText(OtherPrefix), PrefixText(<<>>),
                  PrefixObj(Str(ThirdPrefix)), PrefixObj(Missing)>>]}

\* what fetch_prefixes_for_asn got from an endpoint: an exception, or a body
Failed == [state |-> "failed", body |-> NoBody]
Answered(body) == [state |-> "answered", body |-> body]

Unread == [state |-> "raised", prefixes |-> {}]

\* extract_prefixes_from_payload: the set it returns; a "data" of null makes
\* data.get raise
extract_prefixes_from_payload(body) ==
    IF body.data = "null" THEN Unread
    ELSE IF body.data = "missing" \/ body.prefixes /= "list"
    THEN [state |-> "read", prefixes |-> {}]
    ELSE [state |-> "read",
          prefixes |-> {body.items[i].p.s :
                          i \in {j \in 1..Len(body.items) :
                                   /\ body.items[j].kind \in {"dict", "str"}
                                   /\ body.items[j].p.k = "str"
                                   /\ body.items[j].p.s /= <<>>}}]

\* a fetch that takes any answer as it is
SuppliesAlways(prefixes) == TRUE

\* fetch_prefixes_for_asn: if prefixes
Supplies(prefixes) == prefixes /= {}

\* an evaluate that looks at the observed set only
evaluate_nonempty(prefix, expected_asn, observed_prefixes, source) ==
    [prefix |-> prefix, expected_asn |-> expected_asn,
     status |-> IF observed_prefixes /= {} THEN "ok" ELSE "alert",
     reason |-> IF observed_prefixes /= {}
                THEN "expected_asn_announces_prefix"
                ELSE "expected_asn_does_not_announce_prefix_possible_hijack_or_reassignment",
     source |-> source]

evaluate(prefix, expected_asn, observed_prefixes, source) ==
    IF prefix \in observed_prefixes
    THEN [prefix |-> prefix, expected_asn |-> expected_asn, status |-> "ok",
          reason |-> "expected_asn_announces_prefix", source |-> source]
    ELSE [prefix |-> prefix, expected_asn |-> expected_asn, status |-> "alert",
          reason |->
              "expected_asn_does_not_announce_prefix_possible_hijack_or_reassignment",
          source |-> source]

\* main: the row of a target whose check raised
ErrorRow(prefix, expected) ==
    [prefix |-> prefix, expected_asn |-> expected, status |-> "error",
     reason |-> "Authorised check failed", source |-> "ripe-fallback"]

\* main: if expected not in asn_prefix_cache
InCache(expected, cache) == \E e \in cache : e.asn = expected
Cached(expected, cache) == CHOOSE e \in cache : e.asn = expected

\* an exit code that reports alerts only
AlarmingAlertOnly(row) == row.status = "alert"

\* main: if row["status"] in {"alert", "error"}
Alarming(row) == row.status \in {"alert", "error"}

\* the target the loop of main is at
CurrentTarget == targets[Len(results) + 1]

InitHijack ==
    /\ script = "bgp_hijack_check"
    /\ pc = "args"
    /\ targets \in Baselines
    /\ value \in PrefixArgs
    /\ targets /= <<>> \/ value /= <<>>
    /\ result = "none"
    /\ results = <<>>
    /\ asn_prefix_cache = {}
    /\ fetch = NoFetch
    /\ exit_code = -1
    /\ IdleWire /\ IdlePath /\ IdleUpstreams /\ IdleIpLookup

\* main: --prefix with --expected-asn is validated by ip_network, whose
\* ValueError nothing catches, and appended to the targets; the banner
\* "Initialising checks, ..." is printed whatever the arguments; exit_code = 0
HijackParseArgs ==
    /\ script = "bgp_hijack_check" /\ pc = "args"
    /\ IF value = <<>>
       THEN /\ pc' = "loop" /\ exit_code' = 0 /\ UNCHANGED targets
            /\ log' = Append(log, Printed("banner"))
       ELSE IF ~IpNetworkOk(value)
       THEN pc' = "crashed" /\ UNCHANGED <<targets, exit_code, log>>
       ELSE \E a \in WrittenAsns :
               /\ targets' = Append(targets, <<value, normalise_asn(a)>>)
               /\ pc' = "loop" /\ exit_code' = 0
               /\ log' = Append(log, Printed("banner"))
    /\ UNCHANGED <<script, lookupVars, upVars, ipVars, rq, pathVars, results,
                   asn_prefix_cache, fetch>>

\* main: results.append(row), exit_code = 2 for an alert or an error, and the
\* next target or the end of the loop
RecordRow(row) ==
    /\ results' = Append(results, row)
    /\ exit_code' = IF Alarming(row) THEN 2 ELSE exit_code
    /\ pc' = IF Len(results) + 1 = Len(targets) THEN "report" ELSE "loop"

\* main: the next target; its ASN is in the cache and the row is evaluated, or
\* fetch_prefixes_for_asn is called and issues its first request
HijackCheckTarget ==
    /\ script = "bgp_hijack_check" /\ pc = "loop" /\ fetch.at = "idle"
    /\ LET prefix == CurrentTarget[1]
           expected == CurrentTarget[2]
       IN  IF InCache(expected, asn_prefix_cache)
           THEN /\ RecordRow(evaluate(prefix, expected,
                                      Cached(expected, asn_prefix_cache).prefixes,
                                      Cached(expected, asn_prefix_cache).source))
                /\ UNCHANGED <<fetch, rq>>
           ELSE /\ fetch' = [NoFetch EXCEPT !.asn = expected, !.at = "announced"]
                /\ rq' = NewCall("announced-prefixes", expected, FALSE)
                /\ UNCHANGED <<results, exit_code, pc>>
    /\ UNCHANGED <<script, targets, asn_prefix_cache, log, lookupVars, upVars,
                   ipVars, pathVars>>

\* fetch_prefixes_for_asn: the announced-prefixes response supplies the
\* prefixes, or (failed, unreadable or without a prefix) the ris-prefixes
\* request follows
FetchHandleAnnounced ==
    /\ script = "bgp_hijack_check" /\ fetch.at = "announced"
    /\ CallOver(rq)
    /\ \E body \in PrefixPayloads :
          LET got == IF CallRaised(rq) THEN Unread
                     ELSE extract_prefixes_from_payload(body)
              answer == IF CallRaised(rq) THEN Failed ELSE Answered(body)
          IN  IF got.state = "read" /\ Supplies(got.prefixes)
              THEN /\ fetch' = [fetch EXCEPT !.at = "returned",
                                             !.source = "announced-prefixes",
                                             !.prefixes = got.prefixes,
                                             !.announced = answer]
                   /\ rq' = NoCall
              ELSE /\ fetch' = [fetch EXCEPT !.at = "ris", !.announced = answer]
                   /\ rq' = NewCall("ris-prefixes", fetch.asn, FALSE)
    /\ UNCHANGED <<script, pc, targets, results, asn_prefix_cache, log, exit_code,
                   lookupVars, upVars, ipVars, pathVars>>

\* fetch_prefixes_for_asn: the ris-prefixes response supplies the prefixes,
\* or the call raises
FetchHandleRis ==
    /\ script = "bgp_hijack_check" /\ fetch.at = "ris"
    /\ CallOver(rq)
    /\ \E body \in PrefixPayloads :
          LET got == IF CallRaised(rq) THEN Unread
                     ELSE extract_prefixes_from_payload(body)
              answer == IF CallRaised(rq) THEN Failed ELSE Answered(body)
          IN  IF got.state = "read" /\ Supplies(got.prefixes)
              THEN fetch' = [fetch EXCEPT !.at = "returned",
                                          !.source = "ris-prefixes",
                                          !.prefixes = got.prefixes,
                                          !.ris = answer]
              ELSE fetch' = [fetch EXCEPT !.at = "raised", !.ris = answer]
    /\ rq' = NoCall
    /\ UNCHANGED <<script, pc, targets, results, asn_prefix_cache, log, exit_code,
                   lookupVars, upVars, ipVars, pathVars>>

\* main: the result of fetch_prefixes_for_asn is cached and the target
\* evaluated, or its exception becomes an error row
HijackRecord ==
    /\ script = "bgp_hijack_check" /\ pc = "loop"
    /\ fetch.at \in {"returned", "raised"}
    /\ LET prefix == CurrentTarget[1]
           expected == CurrentTarget[2]
       IN  IF fetch.at = "returned"
           THEN /\ asn_prefix_cache' = asn_prefix_cache \cup
                       {[asn |-> expected, prefixes |-> fetch.prefixes,
                         source |-> fetch.source]}
                /\ RecordRow(evaluate(prefix, expected, fetch.prefixes, fetch.source))
           ELSE /\ UNCHANGED asn_prefix_cache
                /\ RecordRow(ErrorRow(prefix, expected))
    /\ fetch' = NoFetch
    /\ UNCHANGED <<script, targets, wireVars, lookupVars, upVars, ipVars, pathVars>>

\* main: with --json the rows are printed as one JSON array, without it as a
\* header line and a line per row; main returns exit_code
HijackReport ==
    /\ script = "bgp_hijack_check" /\ pc = "report"
    /\ \E json \in BOOLEAN :
          log' = IF json THEN Append(log, Printed("json array"))
                 ELSE log \o <<Printed("table header")>>
                          \o [i \in 1..Len(results) |-> Printed("table row")]
    /\ pc' = "done"
    /\ UNCHANGED <<script, rq, lookupVars, upVars, ipVars, pathVars, hijackVars,
                   exit_code>>

NextHijack ==
    \/ HijackParseArgs
    \/ HijackCheckTarget
    \/ FetchHandleAnnounced
    \/ FetchHandleRis
    \/ HijackRecord
    \/ HijackReport


(***************************************************************************)
(* One run of a script that talks to RIPEstat                              *)
(***************************************************************************)

Init == InitPathFinder \/ InitAudit \/ InitHijack

Next == NextHttp \/ NextPathFinder \/ NextAudit \/ NextHijack

Spec == Init /\ [][Next]_vars

(***************************************************************************)
(* core/asn_integrity_audit.py: analyse_asn and main                       *)
(***************************************************************************)

IsAsnAudit == script \in {"asn_integrity_audit", "asn_integrity_audit --json"}

\* the resource argument: an ASN written with and without "AS", in lower case
\* between blanks, and an address
AsnAuditInputs == {<<"A", "S", "1", "5", "1", "6", "9">>, <<"1", "5", "1", "6", "9">>, <<" ", "a", "s", "1", "5", "1", "6", "9", " ">>, TargetIp}

\* the four endpoints analyse_asn asks about the ASN, in the order of its calls
AsnEndpoints == <<"as-overview", "announced-prefixes", "asn-neighbours",
                  "ris-first-last-seen">>

\* the "data" of a response that analyse_asn has not got yet
NoAnswers == [e \in {AsnEndpoints[i] : i \in 1..Len(AsnEndpoints)} |-> "unasked"]

\* an auditor that takes every resource for an ASN
is_ip_resource_never(text) == FALSE

\* is_ip_resource
is_ip_resource(text) == IpAddress(Strip(text)) = "returns"

\* the exception of a call that raised: an HTTPError or a failed connection is
\* a RequestException; a body that is no object is an AttributeError; a body
\* that is no JSON is a JSONDecodeError, which is a RequestException or a
\* plain ValueError depending on the version of requests
FailureKinds(c) ==
    IF c.at = "invalid-json" THEN {"RequestException", "Exception"}
    ELSE IF c.status = 200 THEN {"Exception"}
    ELSE {"RequestException"}

\* resolve_asn_from_ip, after its request: the ASN of the first entry of
\* "asns", or a RuntimeError
resolve_asn_from_ip(d) ==
    IF d.asns = "obj" /\ d.asn.k \notin {"missing", "null"}
    THEN [raised |-> FALSE, asn |-> normalise_asn(PyStr(d.asn))]
    ELSE [raised |-> TRUE, asn |-> <<>>]

\* the rest of analyse_asn after the four fetches: a "data" of null has no
\* .get and get_upstreams may raise; the result with its input, its ASN and
\* its upstreams (holder, country, prefix count and times are left out)
AnalyseRest(raw, resolved, asn, answers, up) ==
    IF (\E e \in DOMAIN answers : answers[e] = "null") \/ up.raised
    THEN [raised |-> TRUE, result |-> NoReport]
    ELSE [raised |-> FALSE,
          result |-> [input |-> raw, resolved_from_ip |-> resolved, asn |-> asn,
                      upstreams_top3 |-> up.rows]]

InitAsnAudit ==
    /\ IsAsnAudit
    /\ pc = "start"
    /\ value \in AsnAuditInputs
    /\ result = "none"
    /\ payload = NoAnswers
    /\ report = NoReport
    /\ IdleUpstreams /\ IdleRuns

\* analyse_asn: raw, resolved_from_ip, and the request of resolve_asn_from_ip
\* or the normalised ASN and the first fetch_json
AsnAuditStart ==
    /\ IsAsnAudit /\ pc = "start"
    /\ LET raw == Strip(value)
       IN  IF is_ip_resource(raw)
           THEN /\ result' = "True"
                /\ pc' = "prefix-overview"
                /\ rq' = NewCall("prefix-overview", raw, FALSE)
                /\ UNCHANGED base
           ELSE /\ result' = "False"
                /\ base' = [base EXCEPT !.origin_asn = normalise_asn(raw)]
                /\ pc' = AsnEndpoints[1]
                /\ rq' = NewCall(AsnEndpoints[1], normalise_asn(raw), FALSE)
    /\ UNCHANGED <<script, value, log, upVars, ipVars, path_asns, seen, hijackVars,
                   exit_code>>

\* resolve_asn_from_ip handles the prefix-overview response (whose "data" may
\* be null, which has no .get); analyse_asn goes on to its first fetch_json,
\* or the exception reaches main
AsnAuditResolve ==
    /\ IsAsnAudit /\ pc = "prefix-overview"
    /\ CallOver(rq)
    /\ IF CallRaised(rq)
       THEN /\ \E e \in FailureKinds(rq) : pc' = e
            /\ rq' = NoCall
            /\ UNCHANGED base
       ELSE \E d \in PrefixOverviewData, nodata \in BOOLEAN :
               LET got == resolve_asn_from_ip(d)
               IN  IF nodata \/ got.raised
                   THEN /\ pc' = IF nodata THEN "Exception" ELSE "RuntimeError"
                        /\ rq' = NoCall /\ UNCHANGED base
                   ELSE /\ base' = [base EXCEPT !.origin_asn = got.asn]
                        /\ pc' = AsnEndpoints[1]
                        /\ rq' = NewCall(AsnEndpoints[1], got.asn, FALSE)
    /\ UNCHANGED <<script, lookupVars, log, upVars, ipVars, path_asns, seen,
                   hijackVars, exit_code>>

\* fetch_json returns the "data" of one of the four responses, or raises; after
\* the fourth, the rest of analyse_asn computes the result or raises
AsnAuditFetch ==
    /\ IsAsnAudit
    /\ \E i \in 1..Len(AsnEndpoints) :
          /\ pc = AsnEndpoints[i]
          /\ CallOver(rq)
          /\ IF CallRaised(rq)
             THEN /\ \E e \in FailureKinds(rq) : pc' = e
                  /\ rq' = NoCall
                  /\ UNCHANGED <<payload, report, upVars>>
             ELSE \E d \in {"obj", "null"}, nb \in NeighboursData :
                     LET answers == [payload EXCEPT ![pc] = d]
                         list == IF pc = "asn-neighbours" /\ d = "obj"
                                 THEN nb ELSE neighbours
                         up == get_upstreams(list)
                         rest == AnalyseRest(Strip(value), result = "True",
                                             base.origin_asn, answers, up)
                     IN  /\ payload' = answers
                         /\ neighbours' = list
                         /\ IF i < Len(AsnEndpoints)
                            THEN /\ pc' = AsnEndpoints[i + 1]
                                 /\ rq' = NewCall(AsnEndpoints[i + 1],
                                                  base.origin_asn, FALSE)
                                 /\ UNCHANGED <<report, upstreams>>
                            ELSE /\ rq' = NoCall
                                 /\ upstreams' = up
                                 /\ report' = rest.result
                                 /\ pc' = IF rest.raised THEN "Exception"
                                          ELSE "returned"
    /\ UNCHANGED <<script, lookupVars, log, pathVars, hijackVars, exit_code>>

\* main: the outcome of analyse_asn is printed, as one JSON object with --json
\* (the lines of the text report are not told apart), and main returns 0 for a
\* result and 1 for an exception
AsnAuditMain ==
    /\ IsAsnAudit
    /\ pc \in {"returned", "RequestException", "RuntimeError", "Exception"}
    /\ IF pc = "returned"
       THEN /\ log' = log \o (IF JsonMode THEN <<Printed("object: result")>>
                               ELSE <<Printed("text report")>>)
            /\ exit_code' = 0
       ELSE /\ log' = log \o FailureOutput(pc = "RequestException")
            /\ exit_code' = 1
    /\ pc' = "done"
    /\ UNCHANGED <<script, rq, lookupVars, upVars, ipVars, pathVars, hijackVars>>

NextAsnAudit == AsnAuditStart \/ AsnAuditResolve \/ AsnAuditFetch \/ AsnAuditMain

SpecAsnAudit == InitAsnAudit /\ [][HttpGet \/ HttpRaiseForStatus \/ NextAsnAudit]_vars

(***************************************************************************)
(* One run of ip_lookup or of asn_integrity_audit                          *)
(***************************************************************************)

InitTriage == InitIpLookup \/ InitAsnAudit

NextTriage == HttpGet \/ HttpRaiseForStatus \/ NextIpLookup \/ NextAsnAudit

SpecTriage == InitTriage /\ [][NextTriage]_vars

(***************************************************************************)
(* core/ip_gen.py: parse_count, the two generators and main                *)
(***************************************************************************)

MaxCount == 2       \* the largest --count of a generated command line

\* An IPv4 address is the tuple of its four octets; a network is its address
\* and its prefix length.
Ip(a, b, c, d) == <<a, b, c, d>>
Net(a, b, c, d, len) == [addr |-> <<a, b, c, d>>, len |-> len]

RECURSIVE Pow2(_)
Pow2(n) == IF n = 0 THEN 1 ELSE 2 * Pow2(n - 1)

\* the octet x with its low bits cleared, resp. set, keeping `bits` high bits
OctetFloor(x, bits) == x - (x % Pow2(8 - bits))
OctetCeil(x, bits) == OctetFloor(x, bits) + Pow2(8 - bits) - 1

\* the high bits of octet i that a prefix of length len covers
BitsOf(len, i) ==
    IF len >= 8 * i THEN 8 ELSE IF len <= 8 * (i - 1) THEN 0 ELSE len - 8 * (i - 1)

\* ip_network(prefix, strict=False): network_address and broadcast_address
network_address(n) == [i \in 1..4 |-> OctetFloor(n.addr[i], BitsOf(n.len, i))]
broadcast_address(n) == [i \in 1..4 |-> OctetCeil(n.addr[i], BitsOf(n.len, i))]

\* address in network
InNet(ip, n) ==
    \A i \in 1..4 : OctetFloor(ip[i], BitsOf(n.len, i)) = network_address(n)[i]

\* int(a) <= int(b)
AddrLeq(a, b) ==
    \/ a = b
    \/ \E i \in 1..4 : a[i] < b[i] /\ \A j \in 1..(i - 1) : a[j] = b[j]

\* IPv4Address(int(a) + 1) and IPv4Address(int(a) - 1), inside the address space
AddrSucc(a) ==
    IF a[4] < 255 THEN <<a[1], a[2], a[3], a[4] + 1>>
    ELSE IF a[3] < 255 THEN <<a[1], a[2], a[3] + 1, 0>>
    ELSE IF a[2] < 255 THEN <<a[1], a[2] + 1, 0, 0>>
    ELSE <<a[1] + 1, 0, 0, 0>>
AddrPred(a) ==
    IF a[4] > 0 THEN <<a[1], a[2], a[3], a[4] - 1>>
    ELSE IF a[3] > 0 THEN <<a[1], a[2], a[3] - 1, 255>>
    ELSE IF a[2] > 0 THEN <<a[1], a[2] - 1, 255, 255>>
    ELSE <<a[1] - 1, 255, 255, 255>>

\* ipaddress._IPv4Constants of the interpreter the script runs on
private_networks ==
    {Net(0, 0, 0, 0, 8), Net(10, 0, 0, 0, 8), Net(127, 0, 0, 0, 8),
     Net(169, 254, 0, 0, 16), Net(172, 16, 0, 0, 12), Net(192, 0, 0, 0, 29),
     Net(192, 0, 0, 170, 31), Net(192, 0, 2, 0, 24), Net(192, 168, 0, 0, 16),
     Net(198, 18, 0, 0, 15), Net(198, 51, 100, 0, 24), Net(203, 0, 113, 0, 24),
     Net(240, 0, 0, 0, 4), Net(255, 255, 255, 255, 32)}
public_network == Net(100, 64, 0, 0, 10)
multicast_network == Net(224, 0, 0, 0, 4)
reserved_network == Net(240, 0, 0, 0, 4)
loopback_network == Net(127, 0, 0, 0, 8)
linklocal_network == Net(169, 254, 0, 0, 16)
unspecified_address == Ip(0, 0, 0, 0)

\* IPv4Address.is_private and IPv4Address.is_global
is_private(ip) == \E n \in private_networks : InNet(ip, n)
is_global(ip) == ~InNet(ip, public_network) /\ ~is_private(ip)

\* the values of random.getrandbits(32) the model draws: the ends of every
\* special network, the addresses just outside them, and some others
CandidatePool ==
    LET nets == private_networks
                \cup {public_network, multicast_network}
        ends == UNION {{network_address(n), broadcast_address(n)} : n \in nets}
        out == {AddrPred(network_address(n)) :
                   n \in {m \in nets : network_address(m) /= Ip(0, 0, 0, 0)}}
               \cup {AddrSucc(broadcast_address(n)) :
                        n \in {m \in nets :
                                  broadcast_address(m) /= Ip(255, 255, 255, 255)}}
    IN  ends \cup out
        \cup {Ip(8, 8, 8, 8), Ip(193, 0, 6, 139), Ip(224, 0, 0, 1), Ip(233, 252, 0, 1)}

MALICIOUS_TEST_PREFIXES ==
    <<Net(5, 8, 0, 0, 16), Net(36, 0, 0, 0, 8), Net(5, 160, 0, 0, 11),
      Net(175, 45, 176, 0, 22)>>

\* the values of random.randint the model draws for a network: those at and
\* next to its two ends, and one between
PickPool(n) ==
    LET lo == network_address(n)
        hi == broadcast_address(n)
    IN  {lo, AddrSucc(lo), AddrSucc(AddrSucc(lo)),
         [lo EXCEPT ![4] = 77],
         AddrPred(AddrPred(hi)), AddrPred(hi), hi}

\* a generator that picks between the network and the broadcast address
random_ip_from_prefix_inclusive(n) ==
    IF n.len >= 31 THEN {network_address(n)}
    ELSE {pick \in PickPool(n) :
             AddrLeq(network_address(n), pick) /\ AddrLeq(pick, broadcast_address(n))}

\* random_ip_from_prefix: the addresses it can return
random_ip_from_prefix(n) ==
    IF n.len >= 31 THEN {network_address(n)}
    ELSE LET first_host == AddrSucc(network_address(n))
             last_host == AddrPred(broadcast_address(n))
         IN  {pick \in PickPool(n) : AddrLeq(first_host, pick) /\ AddrLeq(pick, last_host)}

\* int(text): blanks around, a sign, decimal digits (underscores left out)
PyIntText(text) ==
    LET t == Strip(text)
        signed == t /= <<>> /\ t[1] \in {"+", "-"}
        digits == IF signed THEN Tail(t) ELSE t
    IN  IF digits /= <<>> /\ \A i \in 1..Len(digits) : digits[i] \in DecDigits
        THEN [ok |-> TRUE,
              n |-> IF signed /\ t[1] = "-" THEN 0 - DecValue(digits)
                    ELSE DecValue(digits)]
        ELSE [ok |-> FALSE, n |-> 0]

\* a parse_count that accepts every integer
parse_count_any(text) == PyIntText(text)

\* parse_count: the count, or an ArgumentTypeError
parse_count(text) ==
    LET c == PyIntText(text)
    IN  IF c.ok /\ c.n > 0 THEN c ELSE [ok |-> FALSE, n |-> 0]

\* the --count argument: absent, or its text
CountArgs ==
    {Missing}
    \cup {Str(Numeral(n)) : n \in 0..MaxCount}
    \cup {Str(<<"-", "1">>), Str(<<"+", "1">>), Str(<<" ", "2", " ">>), Str(<<"a", "b", "c">>), Str(<<"1", ".", "5">>), Str(<<>>)}

IpGenModes == {"ip_gen", "ip_gen --malicious", "ip_gen -m", "ip_gen -m --malicious"}
IsIpGen == script \in IpGenModes
Message == script \in {"ip_gen -m", "ip_gen -m --malicious"}
Malicious == script \in {"ip_gen --malicious", "ip_gen -m --malicious"}

\* args.count, and the prefix and the candidate or pick of the latest draw
NoDraw == [count |-> 0, prefix |-> <<>>, candidate |-> <<>>]

\* the lines with an address printed so far
AddressesPrinted == Len(SelectSeq(log, LAMBDA e : e = Printed("address")))

InitIpGen ==
    /\ IsIpGen
    /\ pc = "args"
    /\ value \in CountArgs
    /\ result = <<>>
    /\ payload = NoDraw
    /\ report = NoReport
    /\ IdleUpstreams /\ IdleRuns

\* parser.parse_args(): --count goes through parse_count, whose error makes
\* argparse exit with status 2
IpGenParseArgs ==
    /\ IsIpGen /\ pc = "args"
    /\ IF value.k = "missing"
       THEN pc' = "main" /\ UNCHANGED <<payload, exit_code>>
       ELSE IF parse_count(value.s).ok
       THEN /\ payload' = [payload EXCEPT !.count = parse_count(value.s).n]
            /\ pc' = "main" /\ UNCHANGED exit_code
       ELSE pc' = "rejected" /\ exit_code' = 2 /\ UNCHANGED payload
    /\ UNCHANGED <<script, lookupVars, upVars, report, wireVars, pathVars, hijackVars>>

\* main: the message and return 0, or parser.error for a missing --count, or
\* the loop over range(args.count)
IpGenMain ==
    /\ IsIpGen /\ pc = "main"
    /\ IF Message
       THEN /\ log' = Append(log, Printed("message"))
            /\ pc' = "done" /\ exit_code' = 0
       ELSE IF value.k = "missing"
       THEN pc' = "rejected" /\ exit_code' = 2 /\ UNCHANGED log
       ELSE IF payload.count > 0
       THEN pc' = "loop" /\ UNCHANGED <<log, exit_code>>
       ELSE pc' = "done" /\ exit_code' = 0 /\ UNCHANGED log
    /\ UNCHANGED <<script, rq, lookupVars, upVars, ipVars, pathVars, hijackVars>>

\* main: after a printed line, the next turn of the loop or return 0
AfterPrint ==
    /\ log' = Append(log, Printed("address"))
    /\ IF AddressesPrinted + 1 = payload.count
       THEN pc' = "done" /\ exit_code' = 0
       ELSE pc' = "loop" /\ UNCHANGED exit_code

\* random_global_unicast_ip: one turn of its loop, which draws a candidate and
\* returns it if it is global; main prints what is returned
IpGenStandard ==
    /\ IsIpGen /\ pc = "loop" /\ ~Malicious
    /\ \E candidate \in CandidatePool :
          /\ payload' = [payload EXCEPT !.candidate = candidate]
          /\ IF is_global(candidate)
             THEN result' = candidate /\ AfterPrint
             ELSE UNCHANGED <<result, log, pc, exit_code>>
    /\ UNCHANGED <<script, value, rq, upVars, report, pathVars, hijackVars>>

\* main: random.choice(MALICIOUS_TEST_PREFIXES), and the address that
\* random_ip_from_prefix returns is printed
IpGenMalicious ==
    /\ IsIpGen /\ pc = "loop" /\ Malicious
    /\ \E i \in 1..Len(MALICIOUS_TEST_PREFIXES) :
          \E pick \in random_ip_from_prefix(MALICIOUS_TEST_PREFIXES[i]) :
              /\ payload' = [payload EXCEPT !.prefix = MALICIOUS_TEST_PREFIXES[i],
                                            !.candidate = pick]
              /\ result' = pick
              /\ AfterPrint
    /\ UNCHANGED <<script, value, rq, upVars, report, pathVars, hijackVars>>

NextIpGen == IpGenParseArgs \/ IpGenMain \/ IpGenStandard \/ IpGenMalicious

SpecIpGen == InitIpGen /\ [][NextIpGen]_vars

(***************************************************************************)
(* scripts/run_report.py: load_ips and main, with core/lookup.py lookup_ip *)
(***************************************************************************)

MaxLines == 3       \* lines of a generated input file

\* the lines a generated input file is made of: blank, comments, addresses
\* with and without blanks around them, and lines that are no address
ReportLines ==
    {<<>>, <<" ", " ">>, <<"#", " ", "l", "i", "s", "t">>, <<" ", " ", "#", "8", ".", "8", ".", "8", ".", "8">>, <<"8", ".", "8", ".", "8", ".", "8">>, <<" ", "1", "9", "3", ".", "0", ".", "6", ".", "1", "3", "9", " ">>,
     <<"9", "9", "9", ".", "1", ".", "1", ".", "1">>, <<"8", ".", "8", ".", "8", ".", "8", " ", "#", " ", "d", "n", "s">>}

\* the file named by --file: absent, or its lines
NoFile == [exists |-> FALSE, lines |-> <<>>]
ReportFiles ==
    {NoFile} \cup {[exists |-> TRUE, lines |-> l] : l \in SeqUpTo(ReportLines, MaxLines)}

\* a load_ips that keeps the comment lines
load_ips_with_comments(lines) ==
    LET stripped == [i \in 1..Len(lines) |-> Strip(lines[i])]
    IN  SelectSeq(stripped, LAMBDA l : l /= <<>>)

\* load_ips: the stripped lines that are not empty and do not start with "#"
load_ips(lines) ==
    LET stripped == [i \in 1..Len(lines) |-> Strip(lines[i])]
    IN  SelectSeq(stripped, LAMBDA l : l /= <<>> /\ ~StartsWith(l, <<"#">>))

\* main: the three kinds of row
InvalidIpRow(ip) == [ip |-> ip, status |-> "error", error |-> "invalid_ip"]
LookupErrorRow(ip) == [ip |-> ip, status |-> "error", error |-> "str(exc)"]
OkRow(ip) == [ip |-> ip, status |-> "ok", error |-> "none"]

InitReport ==
    /\ script = "run_report"
    /\ pc = "start"
    /\ payload \in ReportFiles
    /\ report = NoReport
    /\ IdleLookup /\ IdleUpstreams /\ IdleRuns

\* main: a missing file is reported on stderr and main returns 1; else the
\* ips are loaded
ReportStart ==
    /\ script = "run_report" /\ pc = "start"
    /\ IF ~payload.exists
       THEN /\ log' = Append(log, [Printed("Input file not found") EXCEPT !.url = "stderr"])
            /\ exit_code' = 1
            /\ pc' = "done"
            /\ UNCHANGED targets
       ELSE /\ targets' = load_ips(payload.lines)
            /\ pc' = IF load_ips(payload.lines) = <<>> THEN "report" ELSE "loop"
            /\ UNCHANGED <<log, exit_code>>
    /\ UNCHANGED <<script, rq, lookupVars, upVars, ipVars, pathVars, results,
                   asn_prefix_cache, fetch>>

\* main: the next ip is no address and gets its row, or lookup_ip, which
\* validates it again, sends its request
ReportNextIp ==
    /\ script = "run_report" /\ pc = "loop" /\ rq.at = "idle"
    /\ LET ip == targets[Len(results) + 1]
       IN  IF is_valid_ip(ip) /= "True"
           THEN /\ results' = Append(results, InvalidIpRow(ip))
                /\ pc' = IF Len(results) + 1 = Len(targets) THEN "report" ELSE "loop"
                /\ UNCHANGED rq
           ELSE /\ rq' = NewCall("ipapi.co", ip, FALSE)
                /\ UNCHANGED <<results, pc>>
    /\ UNCHANGED <<script, log, lookupVars, upVars, ipVars, pathVars, targets,
                   asn_prefix_cache, fetch, exit_code>>

\* main: the answer of lookup_ip becomes an ok row; an exception of lookup_ip,
\* or of data.get on an answer that is no object, becomes an error row
ReportHandleLookup ==
    /\ script = "run_report" /\ pc = "loop"
    /\ CallOver(rq)
    /\ LET ip == targets[Len(results) + 1]
       IN  \E isdict \in BOOLEAN :
              results' = Append(results,
                                IF CallRaised(rq) \/ ~isdict THEN LookupErrorRow(ip)
                                ELSE OkRow(ip))
    /\ rq' = NoCall
    /\ pc' = IF Len(results) + 1 = Len(targets) THEN "report" ELSE "loop"
    /\ UNCHANGED <<script, log, lookupVars, upVars, ipVars, pathVars, targets,
                   asn_prefix_cache, fetch, exit_code>>

\* main: the rows are printed as a JSON array or as a table, and main returns 0
ReportPrint ==
    /\ script = "run_report" /\ pc = "report"
    /\ \E json \in BOOLEAN :
          log' = IF json THEN Append(log, Printed("json array"))
                 ELSE log \o <<Printed("table header")>>
                          \o [i \in 1..Len(results) |-> Printed("table row")]
    /\ exit_code' = 0
    /\ pc' = "done"
    /\ UNCHANGED <<script, rq, lookupVars, upVars, ipVars, pathVars, hijackVars>>

NextReport == ReportStart \/ ReportNextIp \/ ReportHandleLookup \/ ReportPrint

SpecReport == InitReport /\ [][HttpGet \/ HttpRaiseForStatus \/ NextReport]_vars

(***************************************************************************)
(* scripts/rpki_check.py: extract_state and main                           *)
(***************************************************************************)

\* parse_baseline: the items of a dict keyed by prefix, each ASN normalised
RpkiBaselines ==
    {b \in SeqUpTo({TargetPrefix, <<"8", ".", "8", ".", "8", ".", "0", "/", "2", "4">>} \X {normalise_asn(<<"a", "s", "3", "3", "3", "3">>)},
                   MaxBaseline) :
        \A i, j \in 1..Len(b) : i /= j => b[i][1] /= b[j][1]}

\* the bodies rpki-validation answers with: "data" null or absent, a status,
\* or a validity object with a state
RpkiBodies ==
    {[data |-> "null", status |-> Missing, validity |-> "none", state |-> Missing],
     [data |-> "missing", status |-> Missing, validity |-> "none", state |-> Missing],
     [data |-> "obj", status |-> Str(<<"V", "a", "l", "i", "d">>), validity |-> "none", state |-> Missing],
     [data |-> "obj", status |-> Str(<<"I", "N", "V", "A", "L", "I", "D">>), validity |-> "obj",
      state |-> Str(<<"v", "a", "l", "i", "d">>)],
     [data |-> "obj", status |-> Missing, validity |-> "obj", state |-> Str(<<"I", "n", "v", "a", "l", "i", "d">>)],
     [data |-> "obj", status |-> Str(<<"i", "n", "v", "a", "l", "i", "d", "_", "a", "s", "n">>), validity |-> "none",
      state |-> Missing],
     [data |-> "obj", status |-> Str(<<"E", "r", "r", "o", "r">>), validity |-> "none", state |-> Missing],
     [data |-> "obj", status |-> Null, validity |-> "other", state |-> Str(<<"i", "n", "v", "a", "l", "i", "d">>)]}

\* extract_state: the state it returns; a "data" of null makes data.get raise
extract_state(body) ==
    IF body.data = "null" THEN [raised |-> TRUE, state |-> <<>>]
    ELSE IF body.data = "missing" THEN [raised |-> FALSE, state |-> <<"u", "n", "k", "n", "o", "w", "n">>]
    ELSE IF body.status.k = "str" /\ body.status.s /= <<>>
    THEN [raised |-> FALSE, state |-> Lower(body.status.s)]
    ELSE IF body.validity = "obj" /\ body.state.k = "str" /\ body.state.s /= <<>>
    THEN [raised |-> FALSE, state |-> Lower(body.state.s)]
    ELSE [raised |-> FALSE, state |-> <<"u", "n", "k", "n", "o", "w", "n">>]

\* an exit code that reports invalid states only
FailingStateInvalidOnly(state) == state = <<"i", "n", "v", "a", "l", "i", "d">>

\* main: if state in {"invalid", "error"}
FailingState(state) == state \in {<<"i", "n", "v", "a", "l", "i", "d">>, <<"e", "r", "r", "o", "r">>}

\* main: the row of a target whose query returned
RpkiRow(prefix, asn, state) ==
    [prefix |-> prefix, asn |-> asn, rpki_state |-> state, error |-> "none",
     source |-> "RIPEstat"]

\* main: the row of a target whose query or extraction raised
RpkiErrorRow(prefix, asn) ==
    [prefix |-> prefix, asn |-> asn, rpki_state |-> <<"e", "r", "r", "o", "r">>, error |-> "str(exc)",
     source |-> "RIPEstat"]

InitRpki ==
    /\ script = "rpki_check"
    /\ pc = "args"
    /\ targets \in RpkiBaselines
    /\ value \in PrefixArgs
    /\ targets /= <<>> \/ value /= <<>>
    /\ result = "none"
    /\ results = <<>>
    /\ asn_prefix_cache = {}
    /\ fetch = NoFetch
    /\ exit_code = -1
    /\ IdleWire /\ IdlePath /\ IdleUpstreams /\ IdleIpLookup

\* main: --prefix with --asn is validated by ip_network, whose ValueError
\* nothing catches, and appended to the targets; exit_code = 0
RpkiParseArgs ==
    /\ script = "rpki_check" /\ pc = "args"
    /\ IF value = <<>>
       THEN pc' = "loop" /\ exit_code' = 0 /\ UNCHANGED targets
       ELSE IF ~IpNetworkOk(value)
       THEN pc' = "crashed" /\ UNCHANGED <<targets, exit_code>>
       ELSE \E a \in WrittenAsns :
               /\ targets' = Append(targets, <<value, normalise_asn(a)>>)
               /\ pc' = "loop" /\ exit_code' = 0
    /\ UNCHANGED <<script, lookupVars, upVars, ipVars, wireVars, pathVars, results,
                   asn_prefix_cache, fetch>>

\* main: query_rpki issues the request for the next target
RpkiQuery ==
    /\ script = "rpki_check" /\ pc = "loop" /\ rq.at = "idle"
    /\ rq' = NewCall("rpki-validation",
                     CurrentTarget[1] \o <<" ">> \o CurrentTarget[2], FALSE)
    /\ UNCHANGED <<script, pc, log, lookupVars, upVars, ipVars, pathVars, hijackVars,
                   exit_code>>

\* main: the state of the target is extracted and its row appended, or the
\* exception becomes an error row; then the next target or the end of the loop
RpkiHandle ==
    /\ script = "rpki_check" /\ pc = "loop"
    /\ CallOver(rq)
    /\ \E body \in RpkiBodies :
          LET got == IF CallRaised(rq) THEN [raised |-> TRUE, state |-> <<>>]
                     ELSE extract_state(body)
              row == IF got.raised
                     THEN RpkiErrorRow(CurrentTarget[1], CurrentTarget[2])
                     ELSE RpkiRow(CurrentTarget[1], CurrentTarget[2], got.state)
          IN  /\ results' = Append(results, row)
              /\ exit_code' = IF got.raised \/ FailingState(got.state)
                              THEN 2 ELSE exit_code
    /\ rq' = NoCall
    /\ pc' = IF Len(results) + 1 = Len(targets) THEN "report" ELSE "loop"
    /\ UNCHANGED <<script, targets, asn_prefix_cache, fetch, log, lookupVars, upVars,
                   ipVars, pathVars>>

\* main: the rows are printed as one JSON array (--json) or as a table, and
\* main returns exit_code
RpkiReport ==
    /\ script = "rpki_check" /\ pc = "report"
    /\ \E json \in BOOLEAN :
          log' = IF json THEN Append(log, Printed("json array"))
                 ELSE log \o <<Printed("table header")>>
                          \o [i \in 1..Len(results) |-> Printed("table row")]
    /\ pc' = "done"
    /\ UNCHANGED <<script, rq, lookupVars, upVars, ipVars, pathVars, hijackVars,
                   exit_code>>

NextRpki == RpkiParseArgs \/ RpkiQuery \/ RpkiHandle \/ RpkiReport

SpecRpki == InitRpki /\ [][HttpGet \/ HttpRaiseForStatus \/ NextRpki]_vars

(***************************************************************************)
(* What an address literal is, stated on the text itself                   *)
(***************************************************************************)

\* The maximal sep-free stretches of s, as <<first, last>> positions (an empty
\* stretch has last = first - 1).
Segs(s, sep) ==
    {f \in (1..(Len(s) + 1)) \X (0..Len(s)) :
        /\ f[1] <= f[2] + 1
        /\ f[1] = 1 \/ s[f[1] - 1] = sep
        /\ f[2] = Len(s) \/ s[f[2] + 1] = sep
        /\ \A i \in f[1]..f[2] : s[i] /= sep}

OctetNumerals == {Numeral(n) : n \in 0..255}

\* four decimal numerals 0..255 separated by dots
IsDottedQuad(s) ==
    LET F == Segs(s, ".")
    IN  /\ Cardinality(F) = 4
        /\ \A f \in F : SubSeq(s, f[1], f[2]) \in OctetNumerals

\* one to four hexadecimal digits
IsGroup(g) == Len(g) \in 1..4 /\ \A i \in 1..Len(g) : g[i] \in HexDigits

\* The number of 16-bit groups that t, a colon-separated list of groups, spells
\* (a dotted quad in last place, where allowed, spells two), or -1 when t is no
\* such list.  The empty text spells none.
GroupCount(t, allowV4) ==
    IF t = <<>> THEN 0
    ELSE LET F == Segs(t, ":")
             IsLast(f) == f[2] = Len(t)
             Txt(f) == SubSeq(t, f[1], f[2])
             V4(f) == allowV4 /\ IsLast(f) /\ IsDottedQuad(Txt(f))
         IN  IF \A f \in F : IsGroup(Txt(f)) \/ V4(f)
             THEN Cardinality(F) + Cardinality({f \in F : V4(f)})
             ELSE -1

\* RFC 4291 section 2.2: eight groups, or one "::" standing for one or more
\* groups of zeros.
IsIPv6Text(t) ==
    LET dbl == {k \in 1..(Len(t) - 1) : t[k] = ":" /\ t[k + 1] = ":"}
    IN  IF dbl = {} THEN GroupCount(t, TRUE) = 8
        ELSE /\ Cardinality(dbl) = 1
             /\ LET k == CHOOSE x \in dbl : TRUE
                     l == GroupCount(SubSeq(t, 1, k - 1), FALSE)
                     r == GroupCount(SubSeq(t, k + 2, Len(t)), TRUE)
                 IN  l >= 0 /\ r >= 0 /\ l + r <= 7

\* An IPv6 literal, with an optional %zone (RFC 4007) after the address.
IsIPv6Literal(s) ==
    LET pct == {i \in 1..Len(s) : s[i] = "%"}
    IN  /\ Cardinality(pct) <= 1
        /\ ~Contains(s, "/")
        /\ IF pct = {} THEN IsIPv6Text(s)
           ELSE LET k == CHOOSE i \in pct : TRUE
                IN  k < Len(s) /\ IsIPv6Text(SubSeq(s, 1, k - 1))

IsAddressLiteral(s) == IsDottedQuad(s) \/ IsIPv6Literal(s)

\* C1: is_valid_ip returns True exactly for the strings that are an IPv4 or an
\* IPv6 address literal, False for every other string, and never raises.
C1_IsValidIpExact ==
    (script = "lookup" /\ pc = "done") =>
        /\ result \in {"True", "False"}
        /\ (result = "True") <=> IsAddressLiteral(value)

\* is_valid_ip has answered False for the dotted quad of the test, whose octets
\* exceed 255.
C1_Witness ==
    /\ script = "lookup" /\ pc = "done"
    /\ value = TestInvalid /\ result = "False"

(***************************************************************************)
(* The upstream list, stated on the response                               *)
(***************************************************************************)

\* a and b are the same text up to the case of their letters
TextEqCI(a, b) ==
    Len(a) = Len(b) /\ \A i \in 1..Len(a) : UpperChar(a[i]) = UpperChar(b[i])

\* the entries of the response, when it carries a list
ResponseItems == IF neighbours.islist THEN neighbours.items ELSE <<>>

\* positions of the entries that are objects of type "left"
LeftNeighbours ==
    {i \in 1..Len(ResponseItems) :
        /\ ResponseItems[i].obj
        /\ ResponseItems[i].type.k = "str"
        /\ TextEqCI(ResponseItems[i].type.s, <<"l", "e", "f", "t">>)}

\* a numeric field of an entry, 0 when it is missing or null
FieldOr0(v) == IF v.k = "int" THEN v.n ELSE 0

Extracted == pc = "extracted" /\ ~upstreams.raised

\* C4: on every asn-neighbours response, with fields missing or null and
\* entries that are no objects, each of the three extractions returns a list,
\* built with 0 for a missing or null number, and none of them raises.
C4_ExtractionNeverRaises ==
    (pc = "extracted") =>
        /\ ~upstreams.raised
        /\ \A k \in 1..Len(upstreams.rows) :
              LET e == ResponseItems[upstreams.from[k]]
                  r == upstreams.rows[k]
              IN  /\ r.power = FieldOr0(e.power)
                  /\ r.v4_peers = FieldOr0(e.v4_peers)
                  /\ r.v6_peers = FieldOr0(e.v6_peers)

\* C6: the list has at most 3 rows, each built from a distinct "left"
\* neighbour of the response, in non-increasing order of power; no left
\* neighbour that was left out has a higher power than a listed one; and fewer
\* than 3 left neighbours are all listed.
C6_Top3Upstreams ==
    Extracted =>
        LET rows == upstreams.rows
            from == upstreams.from
            listed == {from[k] : k \in 1..Len(from)}
        IN  /\ Len(rows) <= 3
            /\ Len(from) = Len(rows)
            /\ listed \subseteq LeftNeighbours
            /\ Cardinality(listed) = Len(rows)
            /\ \A k \in 1..Len(rows) :
                  rows[k].power = FieldOr0(ResponseItems[from[k]].power)
            /\ \A k \in 1..(Len(rows) - 1) : rows[k].power >= rows[k + 1].power
            /\ \A j \in LeftNeighbours \ listed : \A k \in 1..Len(rows) :
                  FieldOr0(ResponseItems[j].power) <= rows[k].power
            /\ Cardinality(LeftNeighbours) < 3 => listed = LeftNeighbours

\* asn_path_finder has cut four left neighbours of different powers down to
\* three rows.
C6_Witness ==
    /\ script = "asn_path_finder"
    /\ Extracted
    /\ Cardinality(LeftNeighbours) = 4
    /\ Len(upstreams.rows) = 3
    /\ \E i, j \in LeftNeighbours :
          FieldOr0(ResponseItems[i].power) < FieldOr0(ResponseItems[j].power)

(***************************************************************************)
(* The risk classification, stated on the responses                        *)
(***************************************************************************)

\* text holds one of the words, whatever the case of its letters
HoldsWordCI(text, words) ==
    \E w \in words : \E i \in 1..(Len(text) - Len(w) + 1) :
        TextEqCI(SubSeq(text, i, i + Len(w) - 1), w)

\* the first located resource carries a location code
HasLocationCode ==
    payload.located = "obj" /\ payload.location.k = "str" /\ payload.location.s /= <<>>

\* the usage type of the prefix-overview response, "unknown" without one
UsageText ==
    IF payload.type.k = "str" /\ payload.type.s /= <<>>
    THEN payload.type.s
    ELSE <<"u", "n", "k", "n", "o", "w", "n">>

\* C5: is_high_risk holds exactly when the location code of the first located
\* resource is, up to case, one of RU CN IR KP SY; is_cloud exactly when the
\* holder holds a cloud indicator and is_anonymised exactly when holder plus
\* usage type holds an anonymiser indicator, both up to case; without a
\* location code the country is UNKNOWN and is_high_risk is false.
C5_StaticRiskClassification ==
    (IsIpLookup /\ pc = "returned") =>
        /\ report.is_high_risk <=>
              (HasLocationCode /\
               \E c \in HIGH_RISK_COUNTRIES : TextEqCI(payload.location.s, c))
        /\ report.is_cloud <=> HoldsWordCI(report.holder, CLOUD_INDICATORS)
        /\ report.is_anonymised <=>
              HoldsWordCI(report.holder \o <<" ">> \o UsageText, ANONYMISER_INDICATORS)
        /\ ~HasLocationCode =>
              /\ report.country = <<"U", "N", "K", "N", "O", "W", "N">>
              /\ ~report.is_high_risk

\* analyse_ip has flagged a lower-case "ru" location as high risk, for a
\* holder it found to be both cloud and anonymiser.
C5_Witness ==
    /\ IsIpLookup /\ pc = "returned"
    /\ payload.location = Str(<<"r", "u">>)
    /\ report.is_high_risk /\ report.is_cloud /\ report.is_anonymised

(***************************************************************************)
(* What the log of a run shows                                             *)
(***************************************************************************)

GetCount == Cardinality({i \in 1..Len(log) : log[i].op = "GET"})
DistinctPathAsns == Cardinality({path_asns[i] : i \in 1..Len(path_asns)})
Ended == pc \in {"done", "failed"}

C3_SingleFixedDelayRetry ==
    rq.retry =>
        /\ rq.gets <= 2 /\ rq.sleeps <= 1
        /\ rq.sleeps = 1 => rq.first = 429
        /\ rq.gets = 2 =>
              /\ rq.first = 429 /\ rq.sleeps = 1
              /\ Len(log) >= 3
              /\ LET n == Len(log)
                 IN  /\ log[n].op = "GET" /\ log[n - 2].op = "GET"
                     /\ log[n].url = rq.url /\ log[n - 2].url = rq.url
                     /\ log[n].resource = rq.resource
                     /\ log[n - 2].resource = rq.resource
                     /\ log[n - 1].op = "sleep"
                     /\ log[n - 1].secs = RETRY_DELAY_SECONDS
        /\ rq.at = "returned" => rq.status = 200
        /\ rq.at \in {"returned", "raised", "invalid-json"} /\ rq.gets >= 1
              /\ rq.status >= 400
              => rq.at = "raised"

\* a second 429 has been raised
C3_Witness ==
    /\ rq.retry /\ rq.at = "raised"
    /\ rq.gets = 2 /\ rq.first = 429 /\ rq.status = 429

\* C7 as stated: during one run of main, fetch_prefixes_for_asn is called at
\* most once per distinct expected ASN, whether the lookup succeeded or
\* failed.  (Each call starts with one announced-prefixes request for its
\* ASN.)
C7_OneFetchPerAsn ==
    script = "bgp_hijack_check" =>
        \A i, j \in 1..Len(log) :
            /\ log[i].url = "announced-prefixes"
            /\ log[j].url = "announced-prefixes"
            /\ log[i].resource = log[j].resource
            => i = j

\* the prefixes an endpoint's answer lists: the texts that are an item of its
\* "prefixes" list or the "prefix" of one
C8_Supplied(r) ==
    {t \in HijackPrefixes :
        /\ r.state = "answered"
        /\ r.body.data = "obj" /\ r.body.prefixes = "list"
        /\ \E i \in 1..Len(r.body.items) : r.body.items[i].p = Str(t)}

\* C8: fetch_prefixes_for_asn asks ris-prefixes only after an
\* announced-prefixes request that failed or listed no prefix; what it returns
\* is the non-empty set of the endpoint its source label names; and with no
\* prefix from either endpoint it raises.
C8_AnnouncedThenRis ==
    script = "bgp_hijack_check" =>
        /\ \A i \in 1..Len(log) :
              log[i].url = "ris-prefixes" =>
                  /\ i > 1
                  /\ log[i - 1].url = "announced-prefixes"
                  /\ log[i - 1].resource = log[i].resource
        /\ fetch.at = "ris" \/ fetch.ris.state /= "unasked" =>
              /\ fetch.announced.state /= "unasked"
              /\ C8_Supplied(fetch.announced) = {}
        /\ fetch.at = "returned" =>
              /\ fetch.prefixes /= {}
              /\ \/ /\ fetch.source = "announced-prefixes"
                    /\ fetch.prefixes = C8_Supplied(fetch.announced)
                    /\ fetch.ris.state = "unasked"
                 \/ /\ fetch.source = "ris-prefixes"
                    /\ fetch.prefixes = C8_Supplied(fetch.ris)
        /\ fetch.at = "raised" =>
              C8_Supplied(fetch.announced) = {} /\ C8_Supplied(fetch.ris) = {}
        /\ /\ fetch.announced.state /= "unasked" /\ fetch.ris.state /= "unasked"
           /\ C8_Supplied(fetch.announced) = {} /\ C8_Supplied(fetch.ris) = {}
           => fetch.at = "raised"

\* announced-prefixes answered without a prefix and ris-prefixes supplied the
\* returned set
C8_Witness ==
    /\ script = "bgp_hijack_check"
    /\ fetch.at = "returned" /\ fetch.source = "ris-prefixes"
    /\ fetch.announced.state = "answered"
    /\ fetch.ris.state = "answered"

\* C9: a row that is no error row is "ok" (reason
\* expected_asn_announces_prefix) exactly when its target's prefix is in the
\* set observed for its target's ASN, and "alert" otherwise; prefix and
\* expected_asn are the target's, source is the lookup's.
C9_RowsFollowObservedSet ==
    script = "bgp_hijack_check" =>
        \A i \in 1..Len(results) :
            results[i].status /= "error" =>
                \E e \in asn_prefix_cache :
                    /\ e.asn = targets[i][2]
                    /\ results[i].prefix = targets[i][1]
                    /\ results[i].expected_asn = targets[i][2]
                    /\ results[i].source = e.source
                    /\ results[i].status \in {"ok", "alert"}
                    /\ results[i].status = "ok" <=> targets[i][1] \in e.prefixes
                    /\ results[i].status = "ok" =>
                          results[i].reason = "expected_asn_announces_prefix"

\* two targets of one ASN, one announced by it and one not, after an observed
\* set that is not empty
C9_Witness ==
    /\ script = "bgp_hijack_check" /\ pc = "done"
    /\ \E i, j \in 1..Len(results) :
          /\ results[i].expected_asn = results[j].expected_asn
          /\ results[i].status = "ok"
          /\ results[j].status = "alert"

\* C10: main returns 2 exactly when some row is an alert or an error, and 0
\* otherwise; every target has its row, in target order, and an error row
\* does not end the loop.
C10_ExitCodeAndRows ==
    script = "bgp_hijack_check" =>
        /\ Len(results) <= Len(targets)
        /\ \A i \in 1..Len(results) :
              /\ results[i].prefix = targets[i][1]
              /\ results[i].expected_asn = targets[i][2]
        /\ pc = "done" =>
              /\ Len(results) = Len(targets)
              /\ exit_code \in {0, 2}
              /\ exit_code = 2 <=>
                    \E i \in 1..Len(results) : results[i].status \in {"alert", "error"}
        /\ pc = "loop" => Len(results) < Len(targets) /\ ENABLED Next

\* the first target failed, a later one was checked and found ok, and main
\* returned 2
C10_Witness ==
    /\ script = "bgp_hijack_check" /\ pc = "done"
    /\ Len(results) >= 2
    /\ results[1].status = "error"
    /\ results[Len(results)].status = "ok"
    /\ exit_code = 2

(***************************************************************************)
(* C11: rpki_check.main returns 2 exactly when some row has rpki_state     *)
(* "invalid" or "error" (a raised exception gives an "error" row) and 0    *)
(* otherwise; the rows are the targets, one each and in order, and the     *)
(* loop goes on after a failed target.                                     *)
(***************************************************************************)
C11_ExitCodeAndRows ==
    script = "rpki_check" /\ pc /= "args" /\ pc /= "crashed" =>
        /\ Len(results) <= Len(targets)
        /\ \A i \in 1..Len(results) :
              /\ results[i].prefix = targets[i][1]
              /\ results[i].asn = targets[i][2]
              /\ results[i].error /= "none" => results[i].rpki_state = <<"e", "r", "r", "o", "r">>
        /\ pc = "loop" =>
              /\ Len(results) < Len(targets)
              /\ ENABLED (HttpGet \/ HttpRaiseForStatus \/ NextRpki)
        /\ pc \in {"report", "done"} =>
              /\ Len(results) = Len(targets)
              /\ exit_code \in {0, 2}
              /\ exit_code = 2 <=>
                    \E i \in 1..Len(results) :
                        \/ results[i].rpki_state = <<"i", "n", "v", "a", "l", "i", "d">>
                        \/ results[i].rpki_state = <<"e", "r", "r", "o", "r">>

\* a run whose first target failed and whose later target was still judged
C11_Witness ==
    /\ script = "rpki_check" /\ pc = "done"
    /\ Len(results) >= 2
    /\ results[1].error /= "none"
    /\ results[Len(results)].rpki_state = <<"v", "a", "l", "i", "d">>
    /\ exit_code = 2

\* a run that ends with 0 although a state was neither valid nor unknown
C11_WitnessOther ==
    /\ script = "rpki_check" /\ pc = "done"
    /\ \E i \in 1..Len(results) : results[i].rpki_state = <<"i", "n", "v", "a", "l", "i", "d", "_", "a", "s", "n">>
    /\ exit_code = 0

(***************************************************************************)
(* C13: with --json, all that bgp_hijack_check writes to standard output   *)
(* is the one JSON array of result rows: no other line before or after it. *)
(***************************************************************************)
C13_OnlyTheJsonArray ==
    (/\ script = "bgp_hijack_check" /\ pc = "done"
     /\ \E i \in 1..Len(log) : log[i] = Printed("json array")) =>
        \A i \in 1..Len(log) :
            log[i].op = "print" => log[i] = Printed("json array")

(***************************************************************************)
(* C12: with --json, ip_lookup.main and asn_integrity_audit.main print one *)
(* JSON object and nothing else: the result with exit code 0 when the      *)
(* analysis returned, an object with "error" and "details" with exit code  *)
(* 1 for a request failure, an object with "error" with exit code 1 for    *)
(* any other failure.                                                      *)
(***************************************************************************)
C12_SingleJsonObject ==
    [][(JsonMode /\ pc' = "done") =>
          /\ \A i \in 1..Len(log) : log[i].op /= "print"
          /\ \/ /\ pc = "returned"
                /\ log' = Append(log, Printed("object: result"))
                /\ exit_code' = 0
             \/ /\ pc = "RequestException"
                /\ log' = Append(log, Printed("object: error, details"))
                /\ exit_code' = 1
             \/ /\ pc \notin {"returned", "RequestException"}
                /\ log' = Append(log, Printed("object: error"))
                /\ exit_code' = 1]_vars

\* asn_integrity_audit --json after a failed request: requests, then the one
\* object with the details
C12_Witness ==
    /\ script = "asn_integrity_audit --json" /\ pc = "done"
    /\ exit_code = 1
    /\ Len(log) >= 3
    /\ log[Len(log)] = Printed("object: error, details")
    /\ \A i \in 1..(Len(log) - 1) : log[i].op = "GET"

\* ip_lookup --json with a result
C12_WitnessResult ==
    /\ script = "ip_lookup --json" /\ pc = "done"
    /\ exit_code = 0
    /\ log = <<Printed("object: result")>>
    /\ report.is_high_risk

(***************************************************************************)
(* C18: asn_integrity_audit analyses "AS15169" and "15169" as the ASN      *)
(* "AS15169" with resolved_from_ip false; an address is first resolved     *)
(* through prefix-overview to the ASN of the first entry, with             *)
(* resolved_from_ip true; an address without an ASN mapping ends the run   *)
(* with exit code 1 and no request to any of the four ASN endpoints.       *)
(***************************************************************************)
C18_AsnOrIp ==
    (IsAsnAudit /\ pc /= "start") =>
        LET gets == SelectSeq(log, LAMBDA e : e.op = "GET")
            AsnGets == {i \in 1..Len(gets) : gets[i].url /= "prefix-overview"}
        IN  /\ value \in {<<"A", "S", "1", "5", "1", "6", "9">>,
                          <<"1", "5", "1", "6", "9">>} =>
                  /\ result = "False"
                  /\ base.origin_asn = <<"A", "S", "1", "5", "1", "6", "9">>
                  /\ \A i \in 1..Len(gets) :
                        /\ gets[i].url /= "prefix-overview"
                        /\ gets[i].resource = <<"A", "S", "1", "5", "1", "6", "9">>
                  /\ report /= NoReport =>
                        /\ report.asn = <<"A", "S", "1", "5", "1", "6", "9">>
                        /\ ~report.resolved_from_ip
            /\ value = TargetIp =>
                  /\ result = "True"
                  /\ gets /= <<>> =>
                        /\ gets[1].url = "prefix-overview"
                        /\ gets[1].resource = TargetIp
                  /\ \A i \in AsnGets :
                        /\ i > 1
                        /\ gets[i].resource = <<"A", "S", "3", "3", "3", "3">>
                        /\ base.origin_asn = <<"A", "S", "3", "3", "3", "3">>
                  /\ report /= NoReport =>
                        /\ report.asn = <<"A", "S", "3", "3", "3", "3">>
                        /\ report.resolved_from_ip
                  /\ pc = "RuntimeError" => Len(gets) = 1
                  /\ (pc = "done" /\ base.origin_asn = <<>>) =>
                        exit_code = 1 /\ Len(gets) = 1

\* an address whose prefix-overview answer lists no ASN
C18_Witness ==
    /\ IsAsnAudit /\ pc = "RuntimeError"
    /\ value = TargetIp
    /\ Len(log) = 1 /\ log[1].url = "prefix-overview"

\* an address resolved to its ASN and analysed
C18_WitnessResolved ==
    /\ IsAsnAudit /\ pc = "done" /\ exit_code = 0
    /\ value = TargetIp
    /\ report.resolved_from_ip /\ report.asn = <<"A", "S", "3", "3", "3", "3">>
    /\ Len(SelectSeq(log, LAMBDA e : e.op = "GET")) = 5

\* "15169" analysed as AS15169
C18_WitnessAsn ==
    /\ IsAsnAudit /\ pc = "done" /\ exit_code = 0
    /\ value = <<"1", "5", "1", "6", "9">>
    /\ report.asn = <<"A", "S", "1", "5", "1", "6", "9">>
    /\ Len(SelectSeq(log, LAMBDA e : e.op = "GET")) = 4

(***************************************************************************)
(* C14: in standard mode every address random_global_unicast_ip returns,   *)
(* and so every printed address, satisfies is_global and is not private,   *)
(* loopback, link-local, multicast, reserved or unspecified; a candidate   *)
(* that is not global is not printed, and a global one is returned at once. *)
(***************************************************************************)
C14_OnlyGlobalUnicast ==
    (IsIpGen /\ ~Malicious) =>
        /\ result /= <<>> =>
              /\ is_global(result)
              /\ ~is_private(result)
              /\ ~InNet(result, loopback_network)
              /\ ~InNet(result, linklocal_network)
              /\ ~InNet(result, multicast_network)
              /\ ~InNet(result, reserved_network)
              /\ result /= unspecified_address
        /\ payload.candidate /= <<>> =>
              IF is_global(payload.candidate)
              THEN result = payload.candidate
              ELSE result /= payload.candidate

\* what does hold of the addresses of standard mode: each is a candidate that
\* passed is_global, so none is private, loopback, link-local, reserved or
\* unspecified
C14_ReturnedIsGlobal ==
    (IsIpGen /\ ~Malicious) =>
        /\ result /= <<>> =>
              /\ is_global(result)
              /\ ~is_private(result)
              /\ ~InNet(result, loopback_network)
              /\ ~InNet(result, linklocal_network)
              /\ ~InNet(result, reserved_network)
              /\ result /= unspecified_address
        /\ payload.candidate /= <<>> =>
              IF is_global(payload.candidate)
              THEN result = payload.candidate
              ELSE result /= payload.candidate

(***************************************************************************)
(* C15: in malicious mode every printed address lies inside 5.8.0.0/16,    *)
(* 36.0.0.0/8, 5.160.0.0/11 or 175.45.176.0/22 and is neither the network  *)
(* address nor the broadcast address of the prefix it was drawn from.      *)
(***************************************************************************)
C15_InsideTestPrefixes ==
    (IsIpGen /\ Malicious /\ result /= <<>>) =>
        /\ \/ result[1] = 5 /\ result[2] = 8
           \/ result[1] = 36
           \/ result[1] = 5 /\ result[2] \in 160..191
           \/ result[1] = 175 /\ result[2] = 45 /\ result[3] \in 176..179
        /\ result \notin {Ip(5, 8, 0, 0), Ip(5, 8, 255, 255),
                          Ip(36, 0, 0, 0), Ip(36, 255, 255, 255),
                          Ip(5, 160, 0, 0), Ip(5, 191, 255, 255),
                          Ip(175, 45, 176, 0), Ip(175, 45, 179, 255)}
        /\ payload.prefix.len < 31
        /\ InNet(result, payload.prefix)

\* the last host of 5.160.0.0/11 was printed
C15_Witness ==
    /\ IsIpGen /\ Malicious /\ pc = "done"
    /\ result = Ip(5, 191, 255, 254)
    /\ AddressesPrinted >= 2

(***************************************************************************)
(* C16: ip_gen prints exactly --count addresses, one per line, and returns *)
(* 0; a --count that is no integer or not positive is rejected before any  *)
(* address is generated; a missing --count is rejected unless -m is given; *)
(* with -m no address is generated.                                        *)
(***************************************************************************)
C16_CountAddresses ==
    IsIpGen =>
        LET given == value.k /= "missing"
            count == IF given THEN PyIntText(value.s) ELSE [ok |-> FALSE, n |-> 0]
            valid == count.ok /\ count.n > 0
            generated == payload.candidate /= <<>> \/ result /= <<>>
                         \/ AddressesPrinted > 0
        IN  /\ (pc = "done" /\ ~Message) =>
                  /\ valid
                  /\ exit_code = 0
                  /\ AddressesPrinted = count.n
                  /\ Len(log) = count.n
            /\ pc = "loop" => valid /\ ~Message /\ AddressesPrinted < count.n
            /\ (given /\ ~valid) =>
                  /\ ~generated
                  /\ pc \in {"args", "rejected"}
                  /\ pc = "rejected" => exit_code = 2
            /\ (~given /\ ~Message) =>
                  /\ ~generated
                  /\ pc \in {"args", "main", "rejected"}
                  /\ pc = "rejected" => exit_code = 2
            /\ Message =>
                  /\ ~generated
                  /\ pc = "done" => exit_code = 0 /\ log = <<Printed("message")>>

\* --count " 2 ": two addresses and return 0
C16_Witness ==
    /\ IsIpGen /\ ~Message /\ pc = "done"
    /\ value = Str(<<" ", "2", " ">>)
    /\ AddressesPrinted = 2 /\ exit_code = 0

\* --count 0 is rejected
C16_WitnessRejected ==
    /\ IsIpGen /\ pc = "rejected"
    /\ value = Str(<<"0">>)
    /\ log = <<>>

(***************************************************************************)
(* C17: run_report makes one row per line of the input file that is not    *)
(* blank and no comment, in file order; a line that is no address gets     *)
(* status "error" with error "invalid_ip" and no request; a lookup that    *)
(* raises gets an "error" row and the loop goes on; main returns 0 when    *)
(* the file exists, whatever the rows, and 1 only when it is missing.      *)
(***************************************************************************)
\* the generated lines that, stripped, are addresses
C17_Addresses == {ip \in {Strip(l) : l \in ReportLines} : is_valid_ip(ip) = "True"}

C17_OneRowPerLine ==
    (script = "run_report" /\ pc /= "start") =>
        LET FirstInk(l) == CHOOSE i \in 1..Len(l) :
                              l[i] /= " " /\ \A j \in 1..(i - 1) : l[j] = " "
            IsEntry(l) == (\E i \in 1..Len(l) : l[i] /= " ") /\ l[FirstInk(l)] /= "#"
            entries == SelectSeq(payload.lines, IsEntry)
            gets == SelectSeq(log, LAMBDA e : e.op = "GET")
            looked == SelectSeq(results, LAMBDA r : r.error /= "invalid_ip")
        IN  /\ Len(results) <= Len(entries)
            /\ \A i \in 1..Len(results) :
                  /\ results[i].ip = Strip(entries[i])
                  /\ results[i].ip \notin C17_Addresses =>
                        results[i].status = "error" /\ results[i].error = "invalid_ip"
                  /\ results[i].ip \in C17_Addresses =>
                        results[i].error /= "invalid_ip"
                  /\ results[i].status \in {"ok", "error"}
            /\ \A i \in 1..Len(gets) : gets[i].resource \in C17_Addresses
            /\ Len(gets) \in {Len(looked), Len(looked) + 1}
            /\ pc = "loop" =>
                  /\ Len(results) < Len(entries)
                  /\ \/ rq.at = "idle"     \* the next line can be taken up
                     \/ ENABLED (HttpGet \/ HttpRaiseForStatus \/ ReportHandleLookup)
            /\ pc \in {"report", "done"} =>
                  /\ payload.exists => Len(results) = Len(entries)
                  /\ Len(gets) = Len(looked)
            /\ pc = "done" => exit_code = IF payload.exists THEN 0 ELSE 1

\* a file with a comment, an address whose lookup raised and a line that is
\* no address: two error rows, and main returned 0
C17_Witness ==
    /\ script = "run_report" /\ pc = "done" /\ exit_code = 0
    /\ Len(payload.lines) = 3
    /\ Len(results) = 2
    /\ results[1].status = "error" /\ results[1].error = "str(exc)"
    /\ results[2].error = "invalid_ip"
    /\ Len(SelectSeq(log, LAMBDA e : e.op = "GET")) = 1

\* the missing file
C17_WitnessMissing ==
    /\ script = "run_report" /\ pc = "done" /\ exit_code = 1
    /\ ~payload.exists /\ results = <<>>

(***************************************************************************)
(* C19: asn_path_finder.analyse issues its requests one after another in   *)
(* the order prefix-overview, bgp-state, asn-neighbours, then as-overview  *)
(* once per ASN of the path; a request is issued only by the call in       *)
(* progress, after the answer before it was handled; bgp-state asks about  *)
(* the prefix and asn-neighbours about the origin ASN that prefix-overview *)
(* gave; when one of the first three requests fails, nothing is requested  *)
(* after it, no report is printed and main returns 1.                      *)
(***************************************************************************)
C19_Rank(url) ==
    CASE url = "prefix-overview" -> 1
      [] url = "bgp-state" -> 2
      [] url = "asn-neighbours" -> 3
      [] url = "as-overview" -> 4

C19_SequentialRequests ==
    script = "asn_path_finder" =>
        LET gets == SelectSeq(log, LAMBDA e : e.op = "GET")
            prints == SelectSeq(log, LAMBDA e : e.op = "print")
            Calls(url) == {i \in 1..Len(gets) : gets[i].url = url}
            overviews == SelectSeq(gets, LAMBDA e : e.url = "as-overview")
        IN  /\ \A i, j \in 1..Len(gets) :
                  i < j => C19_Rank(gets[i].url) <= C19_Rank(gets[j].url)
            /\ \A i \in 1..Len(gets) :
                  /\ gets[i].url = "prefix-overview" => gets[i].resource = TargetIp
                  /\ gets[i].url = "bgp-state" =>
                        gets[i].resource = base.prefix /\ base.prefix /= Unknown
                  /\ gets[i].url = "asn-neighbours" =>
                        gets[i].resource = base.origin_asn /\ base.origin_asn /= Unknown
                  /\ gets[i].url = "as-overview" =>
                        \E k \in 1..Len(path_asns) : path_asns[k] = gets[i].resource
            /\ \A u \in {"prefix-overview", "bgp-state", "asn-neighbours"} :
                  Cardinality(Calls(u)) <= 2
            \* one as-overview call for each ASN: its one or two GETs are
            \* adjacent, and the ASNs come in the order of the path
            /\ \A i, j \in 1..Len(overviews) :
                  (i < j /\ overviews[i].resource = overviews[j].resource) => j = i + 1
            /\ \A i, j, k \in 1..Len(overviews) :
                  (i < j /\ j < k) =>
                      ~(/\ overviews[i].resource = overviews[j].resource
                        /\ overviews[j].resource = overviews[k].resource)
            /\ \A i, j \in 1..Len(overviews) :
                  (i < j /\ overviews[i].resource /= overviews[j].resource) =>
                      \E a \in 1..Len(path_asns) :
                          /\ path_asns[a] = overviews[i].resource
                          /\ \A b \in 1..a : path_asns[b] /= overviews[j].resource
            \* a request is the business of the one call in progress
            /\ rq.at /= "idle" =>
                  /\ rq.url = pc
                  /\ rq.gets > 0 =>
                        /\ gets[Len(gets)].url = rq.url
                        /\ gets[Len(gets)].resource = rq.resource
            /\ rq.at = "idle" => pc \in {"report", "done", "failed"}
            /\ pc = "failed" =>
                  /\ exit_code = 1
                  /\ overviews = <<>>
                  /\ prints = <<Printed("error line")>>
                  /\ log[Len(log)] = Printed("error line")
                  /\ ~ENABLED Next
            /\ pc = "done" =>
                  /\ exit_code = 0
                  /\ Len(prints) = 1
                  /\ log[Len(log)] \in {Printed("object: report"), Printed("text report")}
                  /\ \A k \in 1..Len(path_asns) :
                        \E i \in 1..Len(overviews) : overviews[i].resource = path_asns[k]
            /\ pc \notin {"done", "failed"} => prints = <<>>

\* the bgp-state request failed after prefix-overview gave a prefix
C19_Witness ==
    /\ script = "asn_path_finder" /\ pc = "failed"
    /\ base.prefix = TargetPrefix
    /\ LET gets == SelectSeq(log, LAMBDA e : e.op = "GET")
       IN  /\ Len(gets) = 2
           /\ gets[2].url = "bgp-state" /\ gets[2].resource = TargetPrefix

\* all four kinds of request, with an ASN that is twice on the path
C19_WitnessFull ==
    /\ script = "asn_path_finder" /\ pc = "done"
    /\ Len(path_asns) = 3 /\ path_asns[1] = path_asns[2]
    /\ LET gets == SelectSeq(log, LAMBDA e : e.op = "GET")
       IN  /\ Len(gets) = 5
           /\ gets[2].url = "bgp-state" /\ gets[3].url = "asn-neighbours"
           /\ gets[4].url = "as-overview" /\ gets[5].url = "as-overview"

====
